---- MODULE Spec2Model ----
(***************************************************************************)
(* Model of the skill scanner and its remote content client               *)
(* (src-tauri/src/services/github.rs).                                     *)
(*                                                                         *)
(* A string is a sequence of tokens: "/" is the path separator, "\n" the   *)
(* newline, every other token stands for a run of ordinary characters.     *)
(* An Option<T> is a record [some, val].                                   *)
(***************************************************************************)
EXTENDS Integers, Sequences, FiniteSets, TLC

\* ------------------------------------------------------------------ bounds
\* Transport-level failures the network may inject during one command.
MaxTransportFaults == 3

\* ------------------------------------------------------- program constants
MAX_DEPTH == 3
max_retries == 3
BackoffBaseMs == 500

\* -------------------------------------------------------------- strings
SEP == "/"
NL == "\n"

NoneStr == [some |-> FALSE, val |-> <<>>]
SomeStr(s) == [some |-> TRUE, val |-> s]

\* Option::unwrap_or
unwrap_or(o, d) == IF o.some THEN o.val ELSE d

RECURSIVE trim_start_matches(_, _)
\* str::trim_start_matches(c): drop every leading c
trim_start_matches(s, c) ==
    IF s # <<>> /\ Head(s) = c THEN trim_start_matches(Tail(s), c) ELSE s

RECURSIVE trim_end_matches(_, _)
\* str::trim_end_matches(c): drop every trailing c
trim_end_matches(s, c) ==
    IF s # <<>> /\ s[Len(s)] = c
    THEN trim_end_matches(SubSeq(s, 1, Len(s) - 1), c)
    ELSE s

\* str::trim_matches(c)
trim_matches(s, c) == trim_end_matches(trim_start_matches(s, c), c)

\* str::replace(from, ""): drop every occurrence of the token
remove_all(s, c) == SelectSeq(s, LAMBDA t : t # c)

\* str::strip_prefix(p).unwrap_or(s)
strip_prefix_or_self(s, p) ==
    IF Len(p) <= Len(s) /\ SubSeq(s, 1, Len(p)) = p
    THEN SubSeq(s, Len(p) + 1, Len(s))
    ELSE s

\* 1 << n on u64 (n stays far below the width here)
RECURSIVE shl1(_)
shl1(n) == IF n = 0 THEN 1 ELSE 2 * shl1(n - 1)

\* ASCII case folding of the file names that occur in the remote trees
to_ascii_lowercase(name) ==
    CASE name = "SKILL.md" -> "skill.md"
      [] name = "Skill.md" -> "skill.md"
      [] name = "README.md" -> "readme.md"
      [] OTHER -> name

\* str::eq_ignore_ascii_case
eq_ignore_ascii_case(a, b) == to_ascii_lowercase(a) = to_ascii_lowercase(b)

\* str::split(c)
RECURSIVE split(_, _)
split(s, c) ==
    IF \A i \in 1..Len(s) : s[i] # c THEN <<s>>
    ELSE LET k == CHOOSE i \in 1..Len(s) :
                    s[i] = c /\ \A j \in 1..(i - 1) : s[j] # c
         IN  <<SubSeq(s, 1, k - 1)>> \o split(SubSeq(s, k + 1, Len(s)), c)

\* str::to_lowercase, character by character
UpperCase == <<"A", "B", "C", "D", "E", "F", "G", "H", "I", "J", "K", "L", "M", "N", "O", "P", "Q", "R", "S", "T", "U", "V", "W", "X", "Y", "Z">>
LowerCase == <<"a", "b", "c", "d", "e", "f", "g", "h", "i", "j", "k", "l", "m", "n", "o", "p", "q", "r", "s", "t", "u", "v", "w", "x", "y", "z">>
to_lowercase(s) ==
    [i \in 1..Len(s) |->
        IF \E k \in 1..26 : UpperCase[k] = s[i]
        THEN LowerCase[CHOOSE k \in 1..26 : UpperCase[k] = s[i]]
        ELSE s[i]]

\* char::is_whitespace, for the characters that occur
WhiteSpace == {" ", "\t", "\r", "\n"}

\* str::trim
RECURSIVE trim(_)
trim(s) ==
    IF s # <<>> /\ Head(s) \in WhiteSpace THEN trim(Tail(s))
    ELSE IF s # <<>> /\ s[Len(s)] \in WhiteSpace THEN trim(SubSeq(s, 1, Len(s) - 1))
    ELSE s

\* Option<Vec<Skill>>
NoSkills == [some |-> FALSE, val |-> <<>>]
SomeSkills(s) == [some |-> TRUE, val |-> s]

\* ---------------------------------------------------------------- errors
\* GitHubError; every value carries all fields so that values compare.
NoError == [kind |-> "None", path |-> <<>>, attempt |-> 0, msg |-> ""]
NetworkErr(e) == [kind |-> "Network", path |-> <<>>, attempt |-> e.attempt, msg |-> e.msg]
ParseErr(m) == [kind |-> "Parse", path |-> <<>>, attempt |-> 0, msg |-> m]
RateLimited == [kind |-> "RateLimited", path |-> <<>>, attempt |-> 0, msg |-> ""]
NotFound(p) == [kind |-> "NotFound", path |-> p, attempt |-> 0, msg |-> ""]

\* reqwest::Error values: a transport failure of the n-th attempt (1-based),
\* or a failure to read or decode a response body.
TransportError(n) == [attempt |-> n, msg |-> "transport"]
DecodeError == [attempt |-> 0, msg |-> "decode"]
BodyReadError == [attempt |-> 0, msg |-> "body"]

\* -------------------------------------------------------------- base64
\* Each token of an encoded payload is one base64 group; the table gives the
\* bytes it decodes to.  A token outside the table is not valid base64.
B64Table ==
    ("QWxwaGE=" :> "Alpha") @@ ("Qw==" :> "C") @@ ("U3Vi" :> "Sub") @@
    ("Um9vdA==" :> "Root") @@ ("/w==" :> "xFF") @@ ("bG93" :> "low")

\* STANDARD.decode
b64_decode(enc) ==
    IF \E i \in 1..Len(enc) : enc[i] \notin DOMAIN B64Table
    THEN [ok |-> FALSE, val |-> <<>>]
    ELSE [ok |-> TRUE, val |-> [i \in 1..Len(enc) |-> B64Table[enc[i]]]]

\* String::from_utf8
from_utf8(bytes) ==
    IF \E i \in 1..Len(bytes) : bytes[i] = "xFF"
    THEN [ok |-> FALSE, val |-> <<>>]
    ELSE [ok |-> TRUE, val |-> bytes]

\* ------------------------------------------------------- the remote side
\* A remote tree maps a directory path to the children its listing names.
\* The listing is whatever JSON array the remote returns: nothing forces
\* its names to be distinct.
D(name) == [name |-> name, content_type |-> "dir", inline |-> NoneStr,
            dl |-> FALSE, raw |-> <<>>]
F(name, enc, dl, raw) == [name |-> name, content_type |-> "file",
                          inline |-> enc, dl |-> dl, raw |-> raw]

\* a/SKILL.md and b/c/SKILL.md (depth 1 and depth 2), b/c has a script
Tree1 ==
    (<<>> :> <<D("a"), D("b"), F("README.md", SomeStr(<<"Um9vdA==">>), TRUE, <<"Root">>)>>) @@
    (<<"a">> :> <<F("SKILL.md", SomeStr(<<"QWxwaGE=", NL>>), TRUE, <<"Alpha">>)>>) @@
    (<<"b">> :> <<D("c")>>) @@
    (<<"b", SEP, "c">> :> <<F("SKILL.md", SomeStr(<<"Qw==">>), FALSE, <<"C">>),
                            F("run.sh", NoneStr, TRUE, <<"Sub">>)>>)

\* a manifest at depth 3 (x/x1/x2), one only at depth 4 (y/y1/y2/y3)
Tree2 ==
    (<<>> :> <<D("x"), D("y")>>) @@
    (<<"x">> :> <<D("x1")>>) @@
    (<<"x", SEP, "x1">> :> <<D("x2")>>) @@
    (<<"x", SEP, "x1", SEP, "x2">> :>
        <<D("sub"), F("SKILL.md", SomeStr(<<"Qw==">>), FALSE, <<"C">>)>>) @@
    (<<"x", SEP, "x1", SEP, "x2", SEP, "sub">> :> <<>>) @@
    (<<"y">> :> <<D("y1")>>) @@
    (<<"y", SEP, "y1">> :> <<D("y2")>>) @@
    (<<"y", SEP, "y1", SEP, "y2">> :> <<D("y3")>>) @@
    (<<"y", SEP, "y1", SEP, "y2", SEP, "y3">> :>
        <<F("SKILL.md", SomeStr(<<"U3Vi">>), FALSE, <<"Sub">>)>>)

\* a listing that names the same directory twice; a skill directory with a
\* nested skill directory below it; a file without any content
Tree3 ==
    (<<>> :> <<D("a"), D("e"), D("a")>>) @@
    (<<"a">> :> <<F("SKILL.md", SomeStr(<<"QWxwaGE=">>), FALSE, <<"Alpha">>), D("sub")>>) @@
    (<<"a", SEP, "sub">> :> <<F("SKILL.md", SomeStr(<<"U3Vi">>), TRUE, <<"Sub">>)>>) @@
    (<<"e">> :> <<F("notes", NoneStr, FALSE, <<>>)>>)

\* a manifest in the repository root; a manifest spelled in lower case; a
\* manifest that is not valid UTF-8
Tree4 ==
    (<<>> :> <<F("SKILL.md", SomeStr(<<"Um9vdA==">>), FALSE, <<"Root">>), D("s"), D("u")>>) @@
    (<<"s">> :> <<F("skill.md", SomeStr(<<"bG93">>), TRUE, <<"low">>)>>) @@
    (<<"u">> :> <<F("SKILL.md", SomeStr(<<"/w==">>), FALSE, <<"xFF">>)>>)

\* two skill directories with the same name under different parents
Tree5 ==
    (<<>> :> <<D("x"), D("y")>>) @@
    (<<"x">> :> <<D("k")>>) @@
    (<<"x", SEP, "k">> :> <<F("SKILL.md", SomeStr(<<"Qw==">>), FALSE, <<"C">>)>>) @@
    (<<"y">> :> <<D("k")>>) @@
    (<<"y", SEP, "k">> :> <<F("SKILL.md", SomeStr(<<"U3Vi">>), TRUE, <<"Sub">>)>>)

Trees == {Tree1, Tree2, Tree3, Tree4, Tree5}

\* the path GitHub reports for a child of a directory
RemotePath(parent, name) ==
    IF parent = <<>> THEN <<name>> ELSE parent \o <<SEP, name>>

\* a directory that lists itself: l, l/l, l/l/l, ... all answer with the
\* one listing that names the directory l, through LoopLevels levels
LoopLevels == 5

RECURSIVE LoopPath(_)
LoopPath(k) == IF k = 0 THEN <<>> ELSE RemotePath(LoopPath(k - 1), "l")

Tree6 == [p \in {LoopPath(k) : k \in 0..LoopLevels} |-> <<D("l")>>]

\* GitHubContent as it appears in a directory listing (no inline content)
ListingEntry(parent, ch) ==
    [name |-> ch.name, path |-> RemotePath(parent, ch.name),
     content_type |-> ch.content_type, content |-> NoneStr,
     download_url |-> IF ch.dl THEN SomeStr(RemotePath(parent, ch.name)) ELSE NoneStr]

\* GitHubContent as the single-file object (inline base64 content)
FileObject(parent, ch) ==
    [name |-> ch.name, path |-> RemotePath(parent, ch.name),
     content_type |-> ch.content_type, content |-> ch.inline,
     download_url |-> IF ch.dl THEN SomeStr(RemotePath(parent, ch.name)) ELSE NoneStr]

\* the files of a tree: <<parent, index>> of every file child
FileSlots(tree) ==
    {sl \in UNION {{<<d, i>> : i \in 1..Len(tree[d])} : d \in DOMAIN tree} :
        tree[sl[1]][sl[2]].content_type = "file"}

SlotPath(tree, sl) == RemotePath(sl[1], tree[sl[1]][sl[2]].name)

\* HTTP responses: [status, body]; a body is a JSON array of entries, a
\* JSON object (one entry), GitHub's error object, raw bytes, or garbage.
\* truncated: the body cannot be read to its end.
Body(kind, items, data) == [kind |-> kind, items |-> items, data |-> data]
Response(status, body) == [status |-> status, body |-> body]
ErrorBody == Body("error", <<>>, <<>>)

\* GET /repos/{owner}/{repo}/contents/{path}, answered from the tree
ApiGet(tree, path) ==
    IF path \in DOMAIN tree
    THEN Response(200, Body("array",
             [i \in 1..Len(tree[path]) |-> ListingEntry(path, tree[path][i])], <<>>))
    ELSE IF \E sl \in FileSlots(tree) : SlotPath(tree, sl) = path
    THEN LET sl == CHOOSE sl \in FileSlots(tree) : SlotPath(tree, sl) = path
         IN Response(200, Body("object", <<FileObject(sl[1], tree[sl[1]][sl[2]])>>, <<>>))
    ELSE Response(404, ErrorBody)

\* GET of a direct-download URL, answered from the tree
RawGet(tree, path) ==
    IF \E sl \in FileSlots(tree) : SlotPath(tree, sl) = path
    THEN LET sl == CHOOSE sl \in FileSlots(tree) : SlotPath(tree, sl) = path
         IN Response(200, Body("bytes", <<>>, tree[sl[1]][sl[2]].raw))
    ELSE Response(404, ErrorBody)

\* what the remote may answer to a request: the true answer, an error
\* status with GitHub's error object, or a 200 whose body is not the JSON
\* (or cannot be read)
FaultStatuses == {403, 404, 500}

Answers(tree, url) ==
    {IF url.kind = "api" THEN ApiGet(tree, url.path) ELSE RawGet(tree, url.path)}
    \cup {Response(st, ErrorBody) : st \in FaultStatuses}
    \cup {Response(200, Body("malformed", <<>>, <<>>)),
          Response(200, Body("truncated", <<>>, <<>>))}

\* ----------------------------------------------------------------- state
VARIABLES
    remote,     \* the tree the remote serves
    args,       \* arguments of the running command
    pc,         \* position of the running command
    queue,      \* scan_skills / download_directory_files: VecDeque
    visited,    \* scan_skills: HashSet of listed directory paths
    skills,     \* scan_skills: Vec<Skill> accumulated
    files,      \* download_directory_files: Vec<(String, Vec<u8>)> accumulated
    cur,        \* the dequeued element and the listing being iterated
    call,       \* the Client operation in progress
    net,        \* the HTTP request in flight
    requests,   \* every HTTP request sent, in order
    calls,      \* every Client operation started, in order
    faults,     \* transport failures injected so far
    ret         \* the command's return value

\* local storage and the SkillService operations on it (services/skill.rs)
VARIABLES
    disk,       \* the local file system: directories and files
    svc         \* the SkillService operation just performed: arguments and result

\* the commands, the stored configuration and the caches (commands/mod.rs)
VARIABLES
    config,         \* config.json: the stored repositories, in order
    repo_cache,     \* the cache directory: file name -> cached Vec<Skill>
    skills_cache,   \* AppState.skills_cache
    mutex,          \* the holder of the skills_cache lock, or "free"
    cmd             \* the command running in each slot

\* a manifest and what parse_skill_md makes of it (services/github.rs)
VARIABLES
    manifest,       \* the SKILL.md text handed to parse_skill_md, as written
    parsed          \* the value parse_skill_md returned for it

\* the functions and services checked on their own
VARIABLES
    words,          \* categorize_skill: the name, description and tags given
    category,       \* categorize_skill: the category returned
    build,          \* parse_skill_directory: its arguments and the manifest served
    built,          \* parse_skill_directory: the Skill returned
    env,            \* the proxy variables of the process environment
    proxy,          \* GitHubService::new: the proxy given to the client builder
    conf            \* ConfigService: the call just made and its result

\* calls that run at the same time on the threads of the runtime
VARIABLES
    inst,           \* SkillService::install_skill: the position of each call
    edit            \* ConfigService: the position of each call on config.json

scanVars == <<remote, args, pc, queue, visited, skills, files, cur, call, net,
              requests, calls, faults, ret>>
diskVars == <<disk, svc>>
cmdVars == <<config, repo_cache, skills_cache, mutex, cmd>>
parseVars == <<manifest, parsed>>
catVars == <<words, category>>
buildVars == <<build, built>>
envVars == <<env, proxy>>
raceVars == <<inst, edit>>
pureVars == <<catVars, buildVars, envVars, conf, raceVars>>
notScanVars == <<diskVars, cmdVars, parseVars, pureVars>>
notDiskVars == <<scanVars, cmdVars, parseVars, pureVars>>
notCmdVars == <<scanVars, diskVars, parseVars, pureVars>>
notParseVars == <<scanVars, diskVars, cmdVars, pureVars>>
notCatVars ==
    <<scanVars, diskVars, cmdVars, parseVars, buildVars, envVars, conf, raceVars>>
notBuildVars ==
    <<scanVars, diskVars, cmdVars, parseVars, catVars, envVars, conf, raceVars>>
notEnvVars ==
    <<scanVars, diskVars, cmdVars, parseVars, catVars, buildVars, conf, raceVars>>

vars == <<scanVars, diskVars, cmdVars, parseVars, pureVars>>

\* -------------------------------------------------------- Client results
EmptyResult == [ok |-> FALSE, contents |-> <<>>, text |-> <<>>, bytes |-> <<>>,
                err |-> NoError]
OkContents(items) == [EmptyResult EXCEPT !.ok = TRUE, !.contents = items]
OkText(t) == [EmptyResult EXCEPT !.ok = TRUE, !.text = t]
OkBytes(b) == [EmptyResult EXCEPT !.ok = TRUE, !.bytes = b]
Failure(e) == [EmptyResult EXCEPT !.err = e]

\* StatusCode::is_success
is_success(status) == status >= 200 /\ status <= 299

\* Response::json::<T>(): T = Vec<GitHubContent> needs a JSON array of
\* entries, T = GitHubContent one entry object; a reqwest::Error otherwise,
\* which `?` turns into GitHubError::Network.
json(resp, want) ==
    IF resp.body.kind = want THEN [ok |-> TRUE, err |-> NoError]
    ELSE IF resp.body.kind = "truncated"
         THEN [ok |-> FALSE, err |-> NetworkErr(BodyReadError)]
         ELSE [ok |-> FALSE, err |-> NetworkErr(DecodeError)]

\* mutant: the 403 check of fetch_contents is missing
fetch_contents_no_403(path, resp) ==
    IF resp.status = 404 THEN Failure(NotFound(path))
    ELSE IF json(resp, "array").ok THEN OkContents(resp.body.items)
    ELSE Failure(json(resp, "array").err)

\* fetch_contents, from the response of request_with_retry on
fetch_contents(path, resp) ==
    IF resp.status = 403 THEN Failure(RateLimited)
    ELSE IF resp.status = 404 THEN Failure(NotFound(path))
    ELSE IF json(resp, "array").ok THEN OkContents(resp.body.items)
    ELSE Failure(json(resp, "array").err)

\* fetch_file, from the response of request_with_retry on
fetch_file(path, resp) ==
    IF resp.status = 404 THEN Failure(NotFound(path))
    ELSE IF ~json(resp, "object").ok THEN Failure(json(resp, "object").err)
    ELSE LET content == resp.body.items[1] IN
         IF content.content.some
         THEN LET decoded == b64_decode(remove_all(content.content.val, NL)) IN
              IF ~decoded.ok THEN Failure(ParseErr("base64"))
              ELSE IF ~from_utf8(decoded.val).ok THEN Failure(ParseErr("utf8"))
              ELSE OkText(from_utf8(decoded.val).val)
         ELSE Failure(ParseErr("No content found"))

\* fetch_file_bytes, from the response of request_with_retry on; `chain`
\* says that the bytes are to be fetched from the entry's download_url
fetch_file_bytes(path, resp) ==
    IF resp.status = 404
    THEN [chain |-> FALSE, url |-> <<>>, result |-> Failure(NotFound(path))]
    ELSE IF ~json(resp, "object").ok
    THEN [chain |-> FALSE, url |-> <<>>, result |-> Failure(json(resp, "object").err)]
    ELSE LET content == resp.body.items[1] IN
         IF content.content.some
         THEN LET decoded == b64_decode(remove_all(content.content.val, NL)) IN
              [chain |-> FALSE, url |-> <<>>,
               result |-> IF decoded.ok THEN OkBytes(decoded.val)
                          ELSE Failure(ParseErr("base64"))]
         ELSE IF content.download_url.some
         THEN [chain |-> TRUE, url |-> content.download_url.val, result |-> EmptyResult]
         ELSE [chain |-> FALSE, url |-> <<>>,
               result |-> Failure(ParseErr("No content found"))]

\* request_bytes_with_retry, the Ok(response) arm
request_bytes_with_retry(url, resp) ==
    IF resp.status = 403 THEN Failure(RateLimited)
    ELSE IF resp.status = 404 THEN Failure(NotFound(url))
    ELSE IF ~is_success(resp.status) THEN Failure(ParseErr("Unexpected status"))
    ELSE IF resp.body.kind = "truncated" THEN Failure(NetworkErr(BodyReadError))
    ELSE OkBytes(resp.body.data)

\* ------------------------------------------------------ the retry loops
\* mutant: the exponent is one less
backoff_ms_halved(attempt) == BackoffBaseMs * shl1(attempt - 1)

\* the wait before the iteration with 0-based index `attempt` (> 0)
backoff_ms(attempt) == BackoffBaseMs * shl1(attempt)

ApiUrl(path) == [kind |-> "api", path |-> path, ref |-> args.git_ref]
RawUrl(u) == [kind |-> "raw", path |-> u, ref |-> NoneStr]

IdleCall == [op |-> "none", path |-> <<>>, fn |-> "none", url |-> RawUrl(<<>>),
             attempt |-> 0, last_error |-> [some |-> FALSE, val |-> DecodeError],
             sent |-> 0, waits |-> <<>>, status |-> 0, body |-> "none",
             state |-> "idle", result |-> EmptyResult]

\* the request an iteration of a retry loop sends: request_with_retry sets
\* User-Agent and Accept, request_bytes_with_retry only User-Agent
HttpRequest(fn, url, attempt) ==
    [fn |-> fn, url |-> url, attempt |-> attempt, user_agent |-> "MySkills-App",
     accept |-> fn = "request_with_retry"]

\* a retry loop entered: iteration 0 sends at once, without a wait
EnterLoop(op, path, fn, url) ==
    [IdleCall EXCEPT !.op = op, !.path = path, !.fn = fn, !.url = url,
                     !.sent = 1, !.state = "sent"]

\* a Client operation is started (by scan_skills or download_directory_files)
StartCall(op, path, fn, url) ==
    /\ call' = EnterLoop(op, path, fn, url)
    /\ net' = SomeStr(<<url>>)
    /\ requests' = Append(requests, HttpRequest(fn, url, 0))
    /\ calls' = Append(calls, [op |-> op, path |-> path])

\* mutant: only the first transport error is kept
remember_first(prev, e) == IF prev.some THEN prev ELSE [some |-> TRUE, val |-> e]

\* last_error = Some(e)
remember(prev, e) == [some |-> TRUE, val |-> e]

\* Err(e) arm of send(): remember the error and go round the loop; after
\* the last iteration the loop ends with Network(last_error)
ClientTransportFailure ==
    /\ call.state = "sent"
    /\ faults < MaxTransportFaults
    /\ faults' = faults + 1
    /\ net' = NoneStr
    /\ LET e == TransportError(call.attempt + 1)
           last == remember(call.last_error, e)
           next == call.attempt + 1
       IN  call' = IF next < max_retries
                   THEN [call EXCEPT !.last_error = last,
                                     !.attempt = next,
                                     !.waits = Append(@, backoff_ms(next)),
                                     !.state = "sleeping"]
                   ELSE [call EXCEPT !.last_error = last,
                                     !.attempt = next,
                                     !.state = "returned",
                                     !.result = Failure(NetworkErr(last.val))]
    /\ UNCHANGED notScanVars
    /\ UNCHANGED <<remote, args, pc, queue, visited, skills, files, cur,
                   requests, calls, ret>>

\* the sleep before a retry is over: the iteration sends its request
ClientBackoffElapsed ==
    /\ call.state = "sleeping"
    /\ call' = [call EXCEPT !.sent = @ + 1, !.state = "sent"]
    /\ net' = SomeStr(<<call.url>>)
    /\ requests' = Append(requests, HttpRequest(call.fn, call.url, call.attempt))
    /\ UNCHANGED notScanVars
    /\ UNCHANGED <<remote, args, pc, queue, visited, skills, files, cur,
                   calls, faults, ret>>

\* Ok(response) arm of send(): the loop returns and the operation finishes
\* (fetch_file_bytes may go on with the download URL)
ClientResponse ==
    /\ call.state = "sent"
    /\ \E resp \in Answers(remote, call.url) :
         LET fb == fetch_file_bytes(call.path, resp) IN
         IF call.fn = "request_with_retry" /\ call.op = "fetch_file_bytes" /\ fb.chain
         THEN /\ call' = EnterLoop(call.op, call.path, "request_bytes_with_retry",
                                   RawUrl(fb.url))
              /\ net' = SomeStr(<<RawUrl(fb.url)>>)
              /\ requests' = Append(requests,
                     HttpRequest("request_bytes_with_retry", RawUrl(fb.url), 0))
         ELSE /\ call' = [call EXCEPT
                    !.state = "returned",
                    !.status = resp.status,
                    !.body = resp.body.kind,
                    !.result =
                        IF call.fn = "request_bytes_with_retry"
                        THEN request_bytes_with_retry(call.url.path, resp)
                        ELSE IF call.op = "fetch_contents"
                        THEN fetch_contents(call.path, resp)
                        ELSE IF call.op = "fetch_file"
                        THEN fetch_file(call.path, resp)
                        ELSE fb.result]
              /\ net' = NoneStr
              /\ UNCHANGED requests
    /\ UNCHANGED notScanVars
    /\ UNCHANGED <<remote, args, pc, queue, visited, skills, files, cur,
                   calls, faults, ret>>

\* ---------------------------------------------------------- return values
Pending == [state |-> "pending", skills |-> <<>>, files |-> <<>>, err |-> NoError]
OkSkills(v) == [Pending EXCEPT !.state = "Ok", !.skills = v]
OkFiles(v) == [Pending EXCEPT !.state = "Ok", !.files = v]
Err(e) == [Pending EXCEPT !.state = "Err", !.err = e]

NoCur == [dir_path |-> <<>>, depth |-> 0, items |-> <<>>]

\* =================================================================
\* The manifest parser (services/github.rs: parse_skill_md)
\* =================================================================
\* A manifest is the sequence of its characters.

\* str::starts_with(char)
starts_with(s, c) == s # <<>> /\ Head(s) = c

\* str::ends_with(char)
ends_with(s, c) == s # <<>> /\ s[Len(s)] = c

\* str::contains(char)
contains(s, c) == \E i \in 1..Len(s) : s[i] = c

\* str::find(pat): the number of characters before the first occurrence of
\* pat, or -1 when there is none
find(s, pat) ==
    LET hits == {i \in 1..(Len(s) - Len(pat) + 1) :
                    SubSeq(s, i, i + Len(pat) - 1) = pat}
    IN  IF hits = {} THEN -1
        ELSE (CHOOSE i \in hits : \A j \in hits : i <= j) - 1

\* str::split_once(c): [some, key, value]
split_once(s, c) ==
    IF ~contains(s, c) THEN [some |-> FALSE, key |-> <<>>, value |-> <<>>]
    ELSE LET k == find(s, <<c>>)
         IN  [some |-> TRUE, key |-> SubSeq(s, 1, k),
              value |-> SubSeq(s, k + 2, Len(s))]

\* str::lines: the pieces between "\n", the "\r" of a "\r\n" removed, no
\* empty piece after the last "\n"
lines(s) ==
    LET pieces == split(s, NL)
        kept == IF pieces[Len(pieces)] = <<>>
                THEN SubSeq(pieces, 1, Len(pieces) - 1) ELSE pieces
    IN  [i \in 1..Len(kept) |->
            IF i < Len(pieces) /\ ends_with(kept[i], "\r")
            THEN SubSeq(kept[i], 1, Len(kept[i]) - 1) ELSE kept[i]]

\* a value with its surrounding white space kept and no quote removed
unquote_keeps_quotes(v) == trim(v)

\* value.trim().trim_matches('"').trim_matches('\'')
unquote(v) == trim_matches(trim_matches(trim(v), "\""), "'")

\* the value taken as one tag, brackets and commas included
parse_inline_tags_whole(value) == <<unquote(value)>>

\* parse_inline_tags
parse_inline_tags(value) ==
    LET t == trim(value)
        v == IF starts_with(t, "[") /\ ends_with(t, "]") /\ Len(t) >= 2
             THEN SubSeq(t, 2, Len(t) - 1) ELSE t
        parts == split(v, ",")
        cleaned == [i \in 1..Len(parts) |-> unquote(parts[i])]
    IN  SelectSeq(cleaned, LAMBDA x : x # <<>>)

\* SkillMetadata::default, with the tags collected so far and in_tags_list
NoMetadata == [name |-> NoneStr, description |-> NoneStr, author |-> NoneStr,
               tags |-> <<>>, in_tags_list |-> FALSE]

\* a tag block that no line ends
leaves_block_never(line) == FALSE

\* whether a line that is no list item ends the tag block: it must hold ':'
leaves_block(line) == contains(line, ":")

\* parse_skill_md: one line of the front-matter
parse_line(m, raw) ==
    LET line == trim(raw)
        kv == split_once(line, ":")
        key == trim(kv.key)
        value == unquote(kv.value)
        tag == unquote(trim_start_matches(line, "-"))
        keyed == IF m.in_tags_list THEN [m EXCEPT !.in_tags_list = FALSE] ELSE m
    IN  IF line = <<>> THEN m
        ELSE IF m.in_tags_list /\ starts_with(line, "-")
        THEN IF tag # <<>> THEN [m EXCEPT !.tags = Append(@, tag)] ELSE m
        ELSE IF m.in_tags_list /\ ~leaves_block(line) THEN m
        ELSE IF ~kv.some THEN keyed
        ELSE CASE key = <<"n", "a", "m", "e">> ->
                    [keyed EXCEPT !.name = SomeStr(value)]
               [] key = <<"d", "e", "s", "c", "r", "i", "p", "t", "i", "o", "n">> ->
                    [keyed EXCEPT !.description = SomeStr(value)]
               [] key = <<"a", "u", "t", "h", "o", "r">> ->
                    [keyed EXCEPT !.author = SomeStr(value)]
               [] key = <<"t", "a", "g", "s">> ->
                    IF value = <<>> THEN [keyed EXCEPT !.in_tags_list = TRUE]
                    ELSE [keyed EXCEPT !.tags = @ \o parse_inline_tags(value)]
               [] OTHER -> keyed

\* parse_skill_md: the loop over the lines of the front-matter
RECURSIVE parse_lines(_, _)
parse_lines(m, ls) ==
    IF ls = <<>> THEN m ELSE parse_lines(parse_line(m, Head(ls)), Tail(ls))

\* extract_first_paragraph: the first line that is not empty, does not
\* start with '#' and, trimmed, has more than 20 characters
extract_first_paragraph(content) ==
    LET ls == split(content, NL)
        good == {i \in 1..Len(ls) :
                    /\ ls[i] # <<>> /\ Head(ls[i]) # "#"
                    /\ Len(trim(ls[i])) > 20}
    IN  IF good = {} THEN NoneStr
        ELSE SomeStr(trim(ls[CHOOSE i \in good : \A j \in good : i <= j]))

\* parse_skill_md: (SkillMetadata, Option<String>)
parse_skill_md(content) ==
    LET dashes == <<"-", "-", "-">>
        opened == Len(content) >= 3 /\ SubSeq(content, 1, 3) = dashes
        stripped == SubSeq(content, 4, Len(content))
        end == find(stripped, dashes)
        m == parse_lines(NoMetadata, lines(SubSeq(stripped, 1, end)))
        body == SubSeq(stripped, end + 4, Len(stripped))
    IN  IF ~opened
        THEN [name |-> NoneStr, description |-> NoneStr, author |-> NoneStr,
              tags |-> NoSkills, fallback |-> extract_first_paragraph(content)]
        ELSE IF end = -1
        THEN [name |-> NoneStr, description |-> NoneStr, author |-> NoneStr,
              tags |-> NoSkills, fallback |-> NoneStr]
        ELSE [name |-> m.name, description |-> m.description, author |-> m.author,
              tags |-> IF m.tags # <<>> THEN SomeSkills(m.tags) ELSE NoSkills,
              fallback |-> extract_first_paragraph(body)]


\* --------------------------------------------------------- categorize_skill
\* str::contains(&str)
contains_str(s, pat) == find(s, pat) # -1

\* {:?} of a String: in double quotes, '"' and '\' escaped
RECURSIVE escape_debug(_)
escape_debug(s) ==
    IF s = <<>> THEN <<>>
    ELSE (IF Head(s) \in {"\"", "\\"} THEN <<"\\", Head(s)>> ELSE <<Head(s)>>)
         \o escape_debug(Tail(s))

RECURSIVE debug_strings(_)
debug_strings(v) ==
    IF v = <<>> THEN <<>>
    ELSE <<"\"">> \o escape_debug(Head(v)) \o <<"\"">>
         \o (IF Len(v) > 1 THEN <<",", " ">> ELSE <<>>) \o debug_strings(Tail(v))

\* {:?} of an Option<Vec<String>>: None, or Some(["a", "b"])
debug_tags(tags) ==
    IF ~tags.some THEN <<"N", "o", "n", "e">>
    ELSE <<"S", "o", "m", "e", "(", "[">> \o debug_strings(tags.val) \o <<"]", ")">>

\* format!("{} {} {:?}", name, desc, tags)
category_text(name, desc, tags) ==
    name \o <<" ">> \o desc \o <<" ">> \o debug_tags(tags)

\* categorize_skill: the chain of keyword tests on the text
first_category(text) ==
    IF \/ contains_str(text, <<"c", "o", "d", "e">>)
       \/ contains_str(text, <<"d", "e", "v", "e", "l", "o", "p">>)
       \/ contains_str(text, <<"t", "e", "s", "t">>)
       \/ contains_str(text, <<"g", "i", "t">>)
    THEN "Development"
    ELSE IF \/ contains_str(text, <<"d", "a", "t", "a">>)
            \/ contains_str(text, <<"c", "s", "v">>)
            \/ contains_str(text, <<"s", "q", "l">>)
            \/ contains_str(text, <<"a", "n", "a", "l", "y">>)
    THEN "Data"
    ELSE IF \/ contains_str(text, <<"w", "r", "i", "t">>)
            \/ contains_str(text, <<"a", "r", "t", "i", "c", "l", "e">>)
            \/ contains_str(text, <<"c", "o", "n", "t", "e", "n", "t">>)
            \/ contains_str(text, <<"d", "o", "c">>)
    THEN "Writing"
    ELSE IF \/ contains_str(text, <<"b", "u", "s", "i", "n", "e", "s", "s">>)
            \/ contains_str(text, <<"m", "a", "r", "k", "e", "t">>)
            \/ contains_str(text, <<"l", "e", "a", "d">>)
            \/ contains_str(text, <<"s", "a", "l", "e", "s">>)
    THEN "Business"
    ELSE IF \/ contains_str(text, <<"i", "m", "a", "g", "e">>)
            \/ contains_str(text, <<"v", "i", "d", "e", "o">>)
            \/ contains_str(text, <<"c", "r", "e", "a", "t", "i", "v", "e">>)
            \/ contains_str(text, <<"d", "e", "s", "i", "g", "n">>)
    THEN "Creative"
    ELSE IF \/ contains_str(text, <<"p", "r", "o", "d", "u", "c", "t", "i", "v">>)
            \/ contains_str(text, <<"o", "r", "g", "a", "n", "i", "z">>)
            \/ contains_str(text, <<"f", "i", "l", "e">>)
            \/ contains_str(text, <<"a", "u", "t", "o", "m", "a", "t">>)
    THEN "Productivity"
    ELSE "Other"

\* the keywords looked for in the text as written, upper case kept
categorize_skill_case_kept(name, desc, tags) ==
    first_category(category_text(name, desc, tags))

\* categorize_skill
categorize_skill(name, desc, tags) ==
    first_category(to_lowercase(category_text(name, desc, tags)))

\* ------------------------------------------------------------ scan_skills
\* str::rsplit('/').next(): what follows the last separator
RECURSIVE rsplit_next(_, _)
rsplit_next(s, c) ==
    IF s = <<>> \/ s[Len(s)] = c THEN <<>>
    ELSE Append(rsplit_next(SubSeq(s, 1, Len(s) - 1), c), s[Len(s)])

\* format!("{}/{}", a, b)
format_slash(a, b) == a \o <<SEP>> \o b

\* contents.iter().any(|item| file named SKILL.md, ignoring ASCII case)
has_skill_md(contents) ==
    \E i \in 1..Len(contents) :
        /\ contents[i].content_type = "file"
        /\ eq_ignore_ascii_case(contents[i].name, "SKILL.md")

\* the path scan_skills queues for a subdirectory entry
subdir_path(dir_path, item) ==
    IF dir_path = <<>> THEN <<item.name>> ELSE format_slash(dir_path, <<item.name>>)

\* the (subdir_path, depth + 1) pairs pushed for the "dir" entries, in order
RECURSIVE subdirs(_, _, _)
subdirs(contents, dir_path, depth) ==
    IF contents = <<>> THEN <<>>
    ELSE IF Head(contents).content_type # "dir"
         THEN subdirs(Tail(contents), dir_path, depth)
         ELSE <<[path |-> subdir_path(dir_path, Head(contents)), depth |-> depth + 1]>>
              \o subdirs(Tail(contents), dir_path, depth)

\* parse_skill_directory: the manifest path it fetches
skill_md_path(dir_path) ==
    IF dir_path = <<>> THEN <<"SKILL.md">> ELSE format_slash(dir_path, <<"SKILL.md">>)

\* str::replace(from, to), character by character
replace(s, from, to) == [i \in 1..Len(s) |-> IF s[i] = from THEN to ELSE s[i]]

\* parse_skill_directory: the folder name
folder_of(repo, dir_path) ==
    IF dir_path = <<>> THEN repo ELSE rsplit_next(dir_path, SEP)

folder_name(dir_path) == folder_of(<<args.repo>>, dir_path)

\* the folder name shown as it is
display_name_folder_kept(metadata_name, folder) == unwrap_or(metadata_name, folder)

\* parse_skill_directory: metadata.name, or the folder name with spaces
display_name(metadata_name, folder) ==
    unwrap_or(metadata_name, replace(folder, "-", " "))

\* parse_skill_directory after fetch_file has returned the manifest text
build_skill(owner, repo, dir_path, git_ref, content) ==
    LET md == parse_skill_md(content)
        folder == folder_of(repo, dir_path)
        name == display_name(md.name, folder)
        desc == IF md.description.some THEN md.description.val
                ELSE IF md.fallback.some THEN md.fallback.val
                ELSE <<"A", " ", "s", "k", "i", "l", "l", " ", "f", "r", "o", "m", " ">> \o folder
    IN  [id |-> IF dir_path = <<>>
                THEN format_slash(owner, repo)
                ELSE format_slash(format_slash(owner, repo), dir_path),
         name |-> name,
         description |-> desc,
         repository |-> format_slash(owner, repo),
         git_ref |-> git_ref,
         path |-> folder,
         category |-> categorize_skill(name, desc, md.tags),
         readme |-> SomeStr(content),
         metadata |-> [name |-> md.name, description |-> md.description,
                       author |-> md.author, tags |-> md.tags],
         installed_at |-> NoneStr]

\* mutant: the id is built from the folder name instead of the full path
parse_skill_directory_short_id(dir_path, content) ==
    [build_skill(<<args.owner>>, <<args.repo>>, dir_path, args.git_ref, content)
        EXCEPT !.id = format_slash(format_slash(<<args.owner>>, <<args.repo>>),
                                   folder_name(dir_path))]

\* parse_skill_directory: the Skill built from the manifest text
parse_skill_directory(dir_path, content) ==
    build_skill(<<args.owner>>, <<args.repo>>, dir_path, args.git_ref, content)

\* mutant: the visited set is never consulted
already_visited_never(seen, dir_path) == FALSE

\* !visited.insert(dir_path): the path was listed before
already_visited(seen, dir_path) == dir_path \in seen

\* mutant: the depth cap is compared with > instead of >=
descend_past_cap(found, depth) == ~found /\ ~(depth > MAX_DEPTH)

\* mutant: the `continue` after pushing the Skill is missing
descend_after_skill(found, depth) == ~(depth >= MAX_DEPTH)

\* the subdirectories of a listed directory are queued unless it holds a
\* manifest (first `continue`) or lies at the depth cap (second `continue`)
descend(found, depth) == ~found /\ ~(depth >= MAX_DEPTH)

\* mutant: a NotFound listing is taken for an empty directory
is_err_lenient(result) == ~result.ok /\ result.err.kind # "NotFound"

\* `?` on a Client result: the error leaves the function at once
is_err(result) == ~result.ok

\* entry of scan_skills: the queue is seeded with the trimmed base path
scan_skills ==
    /\ pc = "start" /\ args.cmd = "scan_skills"
    /\ skills' = <<>>
    /\ queue' = <<[path |-> trim_matches(unwrap_or(args.base_path, <<>>), SEP),
                   depth |-> 0]>>
    /\ visited' = {}
    /\ pc' = "scan_loop"
    /\ UNCHANGED notScanVars
    /\ UNCHANGED <<remote, args, files, cur, call, net, requests, calls, faults, ret>>

\* while let Some((dir_path, depth)) = queue.pop_front()
scan_loop ==
    /\ pc = "scan_loop"
    /\ IF queue = <<>>
       THEN /\ ret' = OkSkills(skills)
            /\ pc' = "done"
            /\ UNCHANGED <<queue, visited, cur, call, net, requests, calls>>
       ELSE /\ queue' = Tail(queue)
            /\ UNCHANGED ret
            /\ IF already_visited(visited, Head(queue).path)
               THEN /\ pc' = "scan_loop"
                    /\ UNCHANGED <<visited, cur, call, net, requests, calls>>
               ELSE /\ visited' = visited \cup {Head(queue).path}
                    /\ cur' = [dir_path |-> Head(queue).path,
                               depth |-> Head(queue).depth, items |-> <<>>]
                    /\ StartCall("fetch_contents", Head(queue).path,
                                 "request_with_retry", ApiUrl(Head(queue).path))
                    /\ pc' = "scan_await_contents"
    /\ UNCHANGED notScanVars
    /\ UNCHANGED <<remote, args, skills, files, faults>>

\* fetch_contents has returned to scan_skills
scan_contents ==
    /\ pc = "scan_await_contents" /\ call.state = "returned"
    /\ IF is_err(call.result)
       THEN /\ ret' = Err(call.result.err)
            /\ pc' = "done"
            /\ UNCHANGED <<queue, cur, call, net, requests, calls>>
       ELSE /\ UNCHANGED ret
            /\ cur' = [cur EXCEPT !.items = call.result.contents]
            /\ IF has_skill_md(call.result.contents)
               THEN /\ StartCall("fetch_file", skill_md_path(cur.dir_path),
                                 "request_with_retry",
                                 ApiUrl(skill_md_path(cur.dir_path)))
                    /\ pc' = "scan_await_manifest"
                    /\ UNCHANGED queue
               ELSE /\ queue' = IF descend(FALSE, cur.depth)
                                THEN queue \o subdirs(call.result.contents,
                                                      cur.dir_path, cur.depth)
                                ELSE queue
                    /\ pc' = "scan_loop"
                    /\ UNCHANGED <<call, net, requests, calls>>
    /\ UNCHANGED notScanVars
    /\ UNCHANGED <<remote, args, visited, skills, files, faults>>

\* fetch_file has returned to parse_skill_directory, and that to
\* scan_skills, which pushes the Skill and goes to the next queue element
scan_manifest ==
    /\ pc = "scan_await_manifest" /\ call.state = "returned"
    /\ IF is_err(call.result)
       THEN /\ ret' = Err(call.result.err)
            /\ pc' = "done"
            /\ UNCHANGED <<skills, queue>>
       ELSE /\ skills' = Append(skills,
                             parse_skill_directory(cur.dir_path, call.result.text))
            /\ queue' = IF descend(TRUE, cur.depth)
                        THEN queue \o subdirs(cur.items, cur.dir_path, cur.depth)
                        ELSE queue
            /\ pc' = "scan_loop"
            /\ UNCHANGED ret
    /\ UNCHANGED notScanVars
    /\ UNCHANGED <<remote, args, visited, files, cur, call, net,
                   requests, calls, faults>>

\* ----------------------------------------------- download_directory_files
\* entry: base_dir is the trimmed dir_path, the queue holds it
download_directory_files ==
    /\ pc = "start" /\ args.cmd = "download_directory_files"
    /\ files' = <<>>
    /\ queue' = <<[path |-> trim_matches(args.dir_path, SEP), depth |-> 0]>>
    /\ pc' = "dl_loop"
    /\ UNCHANGED notScanVars
    /\ UNCHANGED <<remote, args, visited, skills, cur, call, net, requests,
                   calls, faults, ret>>

\* while let Some(current_dir) = queue.pop_front()
dl_loop ==
    /\ pc = "dl_loop"
    /\ IF queue = <<>>
       THEN /\ ret' = OkFiles(files)
            /\ pc' = "done"
            /\ UNCHANGED <<queue, cur, call, net, requests, calls>>
       ELSE /\ queue' = Tail(queue)
            /\ cur' = [dir_path |-> Head(queue).path, depth |-> 0, items |-> <<>>]
            /\ StartCall("fetch_contents", Head(queue).path,
                         "request_with_retry", ApiUrl(Head(queue).path))
            /\ pc' = "dl_await_contents"
            /\ UNCHANGED ret
    /\ UNCHANGED notScanVars
    /\ UNCHANGED <<remote, args, visited, skills, files, faults>>

\* fetch_contents has returned to download_directory_files
dl_contents ==
    /\ pc = "dl_await_contents" /\ call.state = "returned"
    /\ IF is_err(call.result)
       THEN /\ ret' = Err(call.result.err)
            /\ pc' = "done"
            /\ UNCHANGED cur
       ELSE /\ cur' = [cur EXCEPT !.items = call.result.contents]
            /\ pc' = "dl_items"
            /\ UNCHANGED ret
    /\ UNCHANGED notScanVars
    /\ UNCHANGED <<remote, args, queue, visited, skills, files, call, net,
                   requests, calls, faults>>

\* for item in contents: one entry
dl_item ==
    /\ pc = "dl_items"
    /\ IF cur.items = <<>>
       THEN /\ pc' = "dl_loop"
            /\ UNCHANGED <<queue, cur, call, net, requests, calls>>
       ELSE LET item == Head(cur.items) IN
            IF item.content_type = "file"
            THEN /\ IF item.download_url.some
                    THEN StartCall("request_bytes_with_retry", item.download_url.val,
                                   "request_bytes_with_retry",
                                   RawUrl(item.download_url.val))
                    ELSE StartCall("fetch_file_bytes", item.path,
                                   "request_with_retry", ApiUrl(item.path))
                 /\ pc' = "dl_await_file"
                 /\ UNCHANGED <<queue, cur>>
            ELSE /\ queue' = IF item.content_type = "dir"
                             THEN Append(queue, [path |-> item.path, depth |-> 0])
                             ELSE queue
                 /\ cur' = [cur EXCEPT !.items = Tail(@)]
                 /\ pc' = "dl_items"
                 /\ UNCHANGED <<call, net, requests, calls>>
    /\ UNCHANGED notScanVars
    /\ UNCHANGED <<remote, args, visited, skills, files, faults, ret>>

\* mutant: the prefix is removed, the separator after it is kept
relative_path_separator_kept(base_dir, path) ==
    strip_prefix_or_self(path, base_dir)

\* the relative path recorded for a downloaded file
relative_path(base_dir, path) ==
    trim_start_matches(strip_prefix_or_self(path, base_dir), SEP)

\* the bytes of a file have arrived
dl_file ==
    /\ pc = "dl_await_file" /\ call.state = "returned"
    /\ IF is_err(call.result)
       THEN /\ ret' = Err(call.result.err)
            /\ pc' = "done"
            /\ UNCHANGED <<files, cur>>
       ELSE /\ files' = Append(files,
                <<relative_path(trim_matches(args.dir_path, SEP), Head(cur.items).path),
                  call.result.bytes>>)
            /\ cur' = [cur EXCEPT !.items = Tail(@)]
            /\ pc' = "dl_items"
            /\ UNCHANGED ret
    /\ UNCHANGED notScanVars
    /\ UNCHANGED <<remote, args, queue, visited, skills, call, net,
                   requests, calls, faults>>

\* =================================================================
\* SkillService (services/skill.rs) on the local file system
\* =================================================================
\* A path is the sequence of its components from the file system root.
\* The file system is a record: dirs, the set of directories, and files,
\* a function from the paths of the regular files to their bytes and mode.

\* dirs::home_dir()
Home == <<"home", "user">>

\* Path::is_absolute (unix)
is_absolute(s) == s # <<>> /\ Head(s) = SEP

\* Path::components: the names between separators; empty names and "."
\* are dropped
RECURSIVE components(_)
components(s) ==
    IF s = <<>> THEN <<>>
    ELSE IF Head(s) = SEP \/ Head(s) = "." THEN components(Tail(s))
    ELSE <<Head(s)>> \o components(Tail(s))

\* relative.components().any(|c| matches!(c, Component::ParentDir))
has_parent_dir(s) == \E i \in 1..Len(s) : s[i] = ".."

\* Path::join: an absolute argument replaces the base
join(base, s) == IF is_absolute(s) THEN components(s) ELSE base \o components(s)

\* Path::parent
parent(p) == IF p = <<>> THEN <<>> ELSE SubSeq(p, 1, Len(p) - 1)

\* Path::exists
exists(d, p) == p \in d.dirs \/ p \in DOMAIN d.files

Prefixes(p) == {SubSeq(p, 1, i) : i \in 0..Len(p)}

IsPrefix(p, q) == Len(p) <= Len(q) /\ SubSeq(q, 1, Len(p)) = p

\* fs::create_dir_all: fails when a component of the path is a regular file
create_dir_all(d, p) ==
    IF \E q \in Prefixes(p) : q \in DOMAIN d.files
    THEN [ok |-> FALSE, disk |-> d]
    ELSE [ok |-> TRUE, disk |-> [d EXCEPT !.dirs = @ \cup Prefixes(p)]]

\* fs::write: creates or truncates the file; the directory must exist and
\* the path must not be a directory.  A new file gets the default mode.
write(d, p, bytes) ==
    IF p = <<>> \/ parent(p) \notin d.dirs \/ p \in d.dirs
    THEN [ok |-> FALSE, disk |-> d]
    ELSE [ok |-> TRUE,
          disk |-> [d EXCEPT !.files =
                      [q \in DOMAIN d.files \cup {p} |->
                         IF q = p
                         THEN [bytes |-> bytes,
                               mode |-> IF p \in DOMAIN d.files
                                        THEN d.files[p].mode ELSE "644"]
                         ELSE d.files[q]]]]

\* perms.set_mode(0o755); fs::set_permissions
set_mode_755(d, p) == [d EXCEPT !.files[p].mode = "755"]

\* fs::remove_dir_all that removes the directory and leaves what it held
remove_dir_all_shallow(d, p) ==
    IF p \notin d.dirs
    THEN [ok |-> FALSE, disk |-> d]
    ELSE [ok |-> TRUE, disk |-> [d EXCEPT !.dirs = @ \ {p}]]

\* fs::remove_dir_all: the directory and everything below it
remove_dir_all(d, p) ==
    IF p \notin d.dirs
    THEN [ok |-> FALSE, disk |-> d]
    ELSE [ok |-> TRUE,
          disk |-> [dirs |-> {q \in d.dirs : ~IsPrefix(p, q)},
                    files |-> [q \in {f \in DOMAIN d.files : ~IsPrefix(p, f)} |->
                                 d.files[q]]]]

\* fs::read_to_string: the file's bytes must be valid UTF-8
read_to_string(d, p) ==
    IF p \notin DOMAIN d.files THEN [ok |-> FALSE, val |-> <<>>]
    ELSE from_utf8(d.files[p].bytes)

\* SkillError
NoSkillError == [kind |-> "none", name |-> <<>>, io |-> ""]
SkillError_Io(k) == [kind |-> "Io", name |-> <<>>, io |-> k]
SkillError_NotFound(n) == [kind |-> "NotFound", name |-> n, io |-> ""]
SkillError_AlreadyInstalled(n) == [kind |-> "AlreadyInstalled", name |-> n, io |-> ""]

\* get_skills_dir: ~/.claude/skills, created when it does not exist
get_skills_dir(d) ==
    LET skills_dir == Home \o <<".claude", "skills">>
        mk == IF exists(d, skills_dir) THEN [ok |-> TRUE, disk |-> d]
              ELSE create_dir_all(d, skills_dir)
    IN [err |-> IF mk.ok THEN NoSkillError ELSE SkillError_Io("create_dir_all"),
        path |-> skills_dir, disk |-> mk.disk]

\* is_installed
is_installed(d, skill_name) ==
    LET gd == get_skills_dir(d)
    IN IF gd.err # NoSkillError
       THEN [err |-> gd.err, installed |-> FALSE, disk |-> gd.disk]
       ELSE [err |-> NoSkillError,
             installed |-> exists(gd.disk, join(gd.path, skill_name)),
             disk |-> gd.disk]

\* skill_path.exists(): the guard of install_skill
already_installed_never(d, skill_path) == FALSE

already_installed(d, skill_path) == exists(d, skill_path)

\* names ending in ".sh" or ".command"
ScriptNames == {"run.sh", "go.command"}

\* is_script: a segment "scripts", or the suffix .sh or .command
is_script(relative) ==
    \/ \E i \in 1..Len(relative) : relative[i] = "scripts"
    \/ relative # <<>> /\ relative[Len(relative)] \in ScriptNames

\* Path::to_string_lossy of an absolute path
RECURSIVE to_string_lossy(_)
to_string_lossy(p) ==
    IF p = <<>> THEN <<>> ELSE <<SEP, Head(p)>> \o to_string_lossy(Tail(p))

\* install_skill, the loop over the files from entry i on.  fs::write of
\* entry fail_at fails (fail_at = 0: no write fails for an outside reason).
RECURSIVE install_files(_, _, _, _, _)
install_files(d, skill_path, entries, i, fail_at) ==
    IF i > Len(entries) THEN [err |-> NoSkillError, disk |-> d]
    ELSE LET relative == entries[i][1]
             content == entries[i][2]
             file_path == join(skill_path, relative)
             mk == create_dir_all(d, parent(file_path))
             wr == IF i = fail_at THEN [ok |-> FALSE, disk |-> mk.disk]
                   ELSE write(mk.disk, file_path, content)
             after == IF is_script(relative)
                      THEN set_mode_755(wr.disk, file_path) ELSE wr.disk
         IN  IF is_absolute(relative) \/ has_parent_dir(relative)
             THEN [err |-> SkillError_Io("InvalidInput"), disk |-> d]
             ELSE IF ~mk.ok THEN [err |-> SkillError_Io("create_dir_all"), disk |-> d]
             ELSE IF ~wr.ok THEN [err |-> SkillError_Io("write"), disk |-> mk.disk]
             ELSE install_files(after, skill_path, entries, i + 1, fail_at)

\* install_skill
install_skill(d, skill_name, entries, fail_at) ==
    LET gd == get_skills_dir(d)
        skill_path == join(gd.path, skill_name)
        mk == create_dir_all(gd.disk, skill_path)
        wr == install_files(mk.disk, skill_path, entries, 1, fail_at)
    IN  IF gd.err # NoSkillError
        THEN [err |-> gd.err, path |-> <<>>, disk |-> gd.disk]
        ELSE IF already_installed(gd.disk, skill_path)
        THEN [err |-> SkillError_AlreadyInstalled(skill_name), path |-> <<>>,
              disk |-> gd.disk]
        ELSE IF ~mk.ok
        THEN [err |-> SkillError_Io("create_dir_all"), path |-> <<>>, disk |-> gd.disk]
        ELSE [err |-> wr.err,
              path |-> IF wr.err = NoSkillError THEN to_string_lossy(skill_path)
                       ELSE <<>>,
              disk |-> wr.disk]

\* uninstall_skill
uninstall_skill(d, skill_name) ==
    LET gd == get_skills_dir(d)
        skill_path == join(gd.path, skill_name)
        rm == remove_dir_all(gd.disk, skill_path)
    IN  IF gd.err # NoSkillError THEN [err |-> gd.err, disk |-> gd.disk]
        ELSE IF ~exists(gd.disk, skill_path)
        THEN [err |-> SkillError_NotFound(skill_name), disk |-> gd.disk]
        ELSE IF ~rm.ok THEN [err |-> SkillError_Io("remove_dir_all"), disk |-> gd.disk]
        ELSE [err |-> NoSkillError, disk |-> rm.disk]

\* get_skill_content
get_skill_content(d, skill_name) ==
    LET gd == get_skills_dir(d)
        skill_path == join(join(gd.path, skill_name), <<"SKILL.md">>)
        rd == read_to_string(gd.disk, skill_path)
    IN  IF gd.err # NoSkillError
        THEN [err |-> gd.err, content |-> <<>>, disk |-> gd.disk]
        ELSE IF ~exists(gd.disk, skill_path)
        THEN [err |-> SkillError_NotFound(skill_name), content |-> <<>>,
              disk |-> gd.disk]
        ELSE IF ~rd.ok
        THEN [err |-> SkillError_Io("read_to_string"), content |-> <<>>,
              disk |-> gd.disk]
        ELSE [err |-> NoSkillError, content |-> rd.val, disk |-> gd.disk]

\* ------------------------------------------------- SkillService as a system
\* the longest file list an install is given
MaxFiles == 2

SkillNames == {<<"foo">>, <<"bar">>}
UninstallNames == SkillNames \cup {<<>>}

FileEntries ==
    { <<<<"SKILL.md">>, <<"Alpha">>>>,
      <<<<"scripts", SEP, "run.sh">>, <<"Sub">>>>,
      <<<<"..", SEP, "x">>, <<"C">>>>,
      <<<<SEP, "etc", SEP, "passwd">>, <<"C">>>> }

FileLists == UNION {[1..n -> FileEntries] : n \in 0..MaxFiles}

\* whether some entry of a file list is one install_skill rejects
HasInvalidEntry(entries) ==
    \E i \in 1..Len(entries) :
        is_absolute(entries[i][1]) \/ has_parent_dir(entries[i][1])

\* the contents the list gives for the manifest of the skill
ManifestContents(entries) ==
    {entries[i][2] : i \in {j \in 1..Len(entries) :
                              components(entries[j][1]) = <<"SKILL.md">>}}

\* svc records an operation by its name argument, two facts about its file
\* list (invalid: HasInvalidEntry, manifest: ManifestContents) and its result
NoOp == [kind |-> "none", name |-> <<>>, invalid |-> FALSE, manifest |-> {},
         err |-> NoSkillError, path |-> <<>>, installed |-> FALSE,
         content |-> <<>>]

DiskIdle ==
    /\ disk = [dirs |-> Prefixes(Home \o <<".claude", "skills">>), files |-> <<>>]
    /\ svc = NoOp

InstallSkill ==
    \E n \in SkillNames, fl \in FileLists :
      \E k \in 0..Len(fl) :
        LET r == install_skill(disk, n, fl, k)
        IN  /\ disk' = r.disk
            /\ svc' = [NoOp EXCEPT !.kind = "install_skill", !.name = n,
                                  !.invalid = HasInvalidEntry(fl),
                                  !.manifest = ManifestContents(fl),
                                  !.err = r.err, !.path = r.path]
            /\ UNCHANGED notDiskVars

UninstallSkill ==
    \E n \in UninstallNames :
        LET r == uninstall_skill(disk, n)
        IN  /\ disk' = r.disk
            /\ svc' = [NoOp EXCEPT !.kind = "uninstall_skill", !.name = n,
                                  !.err = r.err]
            /\ UNCHANGED notDiskVars

IsInstalled ==
    \E n \in SkillNames :
        LET r == is_installed(disk, n)
        IN  /\ disk' = r.disk
            /\ svc' = [NoOp EXCEPT !.kind = "is_installed", !.name = n,
                                  !.err = r.err, !.installed = r.installed]
            /\ UNCHANGED notDiskVars

GetSkillContent ==
    \E n \in SkillNames :
        LET r == get_skill_content(disk, n)
        IN  /\ disk' = r.disk
            /\ svc' = [NoOp EXCEPT !.kind = "get_skill_content", !.name = n,
                                  !.err = r.err, !.content = r.content]
            /\ UNCHANGED notDiskVars

\* =================================================================
\* The commands (commands/mod.rs) over ConfigService and CacheService
\* =================================================================
\* In this part a string is the sequence of its characters, so that two
\* spellings of the same text are the same value.

\* Option<u32>
NoCount == [some |-> FALSE, val |-> 0]
SomeCount(n) == [some |-> TRUE, val |-> n]

BUILTIN_REPO == <<"ComposioHQ", SEP, "awesome-claude-skills">>

\* AppConfig::default
DefaultConfig ==
    << [id |-> <<"composio", "-", "awesome">>, url |-> BUILTIN_REPO, is_builtin |-> TRUE,
        base_path |-> NoneStr, git_ref |-> NoneStr, skill_count |-> NoCount] >>

\* str::strip_suffix(x).unwrap_or(s)
strip_suffix_or_self(s, x) ==
    IF Len(x) <= Len(s) /\ SubSeq(s, Len(s) - Len(x) + 1, Len(s)) = x
    THEN SubSeq(s, 1, Len(s) - Len(x))
    ELSE s

\* ConfigService::normalize_base_path
normalize_base_path(base_path) ==
    IF ~base_path.some THEN NoneStr
    ELSE LET a == trim_matches(trim(base_path.val), SEP)
             b == strip_suffix_or_self(a, <<SEP, "SKILL.md">>)
             c == strip_suffix_or_self(b, <<"SKILL.md">>)
             d == trim_matches(c, SEP)
         IN  IF a = <<>> \/ d = <<>> THEN NoneStr ELSE SomeStr(d)

\* ConfigService::normalize_git_ref
normalize_git_ref(git_ref) ==
    IF ~git_ref.some \/ trim(git_ref.val) = <<>> THEN NoneStr
    ELSE SomeStr(trim(git_ref.val))

\* ConfigService::add_repository on the stored configuration cfg:
\* the new configuration and the entry returned
add_repository(cfg, owner, repo, base_path, git_ref) ==
    LET repo_url == owner \o <<SEP>> \o repo
        nb == normalize_base_path(base_path)
        ng == normalize_git_ref(git_ref)
        found == {i \in 1..Len(cfg) : cfg[i].url = repo_url}
        index == CHOOSE i \in found : \A j \in found : i <= j
        existing == [cfg[index] EXCEPT
                        !.base_path = IF nb.some /\ @ # nb THEN nb ELSE @,
                        !.git_ref = IF ng.some /\ @ # ng THEN ng ELSE @]
        new_repo == [id |-> to_lowercase(owner \o <<"-">> \o repo),
                     url |-> repo_url, is_builtin |-> FALSE,
                     base_path |-> nb, git_ref |-> ng, skill_count |-> NoCount]
    IN  IF found # {}
        THEN [config |-> [cfg EXCEPT ![index] = existing], result |-> existing]
        ELSE [config |-> Append(cfg, new_repo), result |-> new_repo]

\* an entry that remove_repository never refuses to remove
protected_never(entry) == FALSE

\* remove_repository: the entry found is builtin
protected(entry) == entry.is_builtin

\* ConfigService::remove_repository on the stored configuration cfg: the new
\* configuration and the value returned
remove_repository(cfg, repo_id) ==
    LET found == {i \in 1..Len(cfg) : cfg[i].id = repo_id}
        first == CHOOSE i \in found : \A j \in found : i <= j
        kept == SelectSeq(cfg, LAMBDA r : r.id # repo_id)
    IN  IF found # {} /\ protected(cfg[first])
        THEN [config |-> cfg, result |-> FALSE]
        ELSE IF Len(kept) < Len(cfg)
        THEN [config |-> kept, result |-> TRUE]
        ELSE [config |-> cfg, result |-> FALSE]

\* ConfigService::update_repository_sync (the time of the sync is left out)
update_repository_sync(cfg, repo_id, count) ==
    LET found == {i \in 1..Len(cfg) : cfg[i].id = repo_id}
        index == CHOOSE i \in found : \A j \in found : i <= j
    IN  IF found = {} THEN cfg
        ELSE [cfg EXCEPT ![index].skill_count = SomeCount(count)]

\* CacheService::get_repo_cache_path: the file name of a repository's cache
get_repo_cache_path(repo_id) ==
    [i \in 1..Len(repo_id) |->
        IF repo_id[i] \in {SEP, "\\"} THEN "_" ELSE repo_id[i]] \o <<".json">>

\* CacheService::load_repo_cache on the cache directory
load_repo_cache(cache_files, repo_id) ==
    IF get_repo_cache_path(repo_id) \in DOMAIN cache_files
    THEN SomeSkills(cache_files[get_repo_cache_path(repo_id)])
    ELSE NoSkills

\* CacheService::save_repo_cache
save_repo_cache(cache_files, repo_id, found) ==
    [f \in DOMAIN cache_files \cup {get_repo_cache_path(repo_id)} |->
        IF f = get_repo_cache_path(repo_id) THEN found ELSE cache_files[f]]

\* CacheService::clear_repo_cache
clear_repo_cache(cache_files, repo_id) ==
    [f \in DOMAIN cache_files \ {get_repo_cache_path(repo_id)} |-> cache_files[f]]

\* CacheService::clear_all_cache: every .json file of the directory
clear_all_cache(cache_files) == <<>>

\* data::load_builtin_skills: the bundled list
load_builtin_skills == <<"b1">>

\* What scan_skills(owner, repo, ...) can return to a command: the Skills
\* of the repository when it exists, or a failure.
RemoteRepos == (<<<<"o">>, <<"r", "_", "s">>>> :> <<"k1", "k2">>)

ScanOutcomes(owner, repo_name) ==
    {[ok |-> FALSE, found |-> <<>>, e |-> "RateLimited"]}
    \cup (IF <<owner, repo_name>> \in DOMAIN RemoteRepos
          THEN {[ok |-> TRUE, found |-> RemoteRepos[<<owner, repo_name>>], e |-> ""]}
          ELSE {[ok |-> FALSE, found |-> <<>>, e |-> "NotFound"]})

\* the Skills of the repositories that lie below the directory b
BelowBasePath == {"k2"}

\* what a scan finds when it starts at the base path
scanned(found, base_path) ==
    IF base_path.some THEN SelectSeq(found, LAMBDA k : k \in BelowBasePath)
    ELSE found

\* What scan_skills(owner, repo, base_path, ...) can return to a sync
ScanOutcomesAt(owner, repo_name, base_path) ==
    {[out EXCEPT !.found = scanned(@, base_path)] :
        out \in ScanOutcomes(owner, repo_name)}

\* ------------------------------------------------------ commands in progress
\* A command runs through its phases in order; awaiting marks the command
\* suspended on a scan_skills call.  Between two suspensions a command
\* runs without interruption, except around the skills_cache lock.
Slots == {"c1", "c2"}

NoRet == [state |-> "none", success |-> FALSE, skills_found |-> 0, value |-> <<>>]

IdleCmd == [name |-> "idle", at |-> 0, awaiting |-> FALSE,
            owner |-> <<>>, repo |-> <<>>, repositories |-> <<>>, i |-> 0,
            all_skills |-> <<>>, total_count |-> 0, errors |-> <<>>,
            log |-> <<>>, ret |-> NoRet]

\* the lock taken before the scan instead of after it
phases_lock_first(name) ==
    CASE name = "fetch_store_skills" -> <<"lock", "scan", "store", "return">>
      [] name \in {"sync_repositories", "force_sync_repositories"} ->
            <<"lock", "repos", "store", "return">>
      [] name = "get_cached_skills" -> <<"lock", "store", "return">>
      [] OTHER -> <<>>

\* the order in which a command scans, takes the skills_cache lock, reads
\* or replaces the cache, and returns (which drops the guard)
phases(name) ==
    CASE name = "fetch_store_skills" -> <<"scan", "lock", "store", "return">>
      [] name \in {"sync_repositories", "force_sync_repositories"} ->
            <<"repos", "lock", "store", "return">>
      [] name = "get_cached_skills" -> <<"lock", "store", "return">>
      [] OTHER -> <<>>

phase(c) == IF c.at \in 1..Len(phases(c.name)) THEN phases(c.name)[c.at] ELSE "none"

\* mutant: the Skills of a repository replace those gathered before
took_last_only(c, found, how) ==
    [c EXCEPT !.total_count = @ + Len(found),
              !.all_skills = found,
              !.log = Append(@, [how |-> how, found |-> found]),
              !.i = @ + 1]

\* one repository dealt with without an error
took(c, found, how) ==
    [c EXCEPT !.total_count = @ + Len(found),
              !.all_skills = @ \o found,
              !.log = Append(@, [how |-> how, found |-> found]),
              !.i = @ + 1]

\* one repository dealt with by an error message
failed(c, text, e, how) ==
    [c EXCEPT !.errors = Append(@, [text |-> text,
                                    url |-> c.repositories[c.i].url, e |-> e]),
              !.log = Append(@, [how |-> how, found |-> <<>>]),
              !.i = @ + 1]

\* The loop of sync_repositories and force_sync_repositories from the
\* repository c.i on, up to the next scan_skills call or the end of the list.
RECURSIVE sync_loop(_, _, _)
sync_loop(c, cfg, cache_files) ==
    IF c.i > Len(c.repositories)
    THEN [c |-> [c EXCEPT !.at = @ + 1], config |-> cfg]
    ELSE LET repo == c.repositories[c.i]
             cached == load_repo_cache(cache_files, repo.id)
         IN  IF repo.url = BUILTIN_REPO /\ repo.is_builtin
             THEN sync_loop(took(c, load_builtin_skills, "builtin"),
                            update_repository_sync(cfg, repo.id,
                                                   Len(load_builtin_skills)),
                            cache_files)
             ELSE IF c.name = "sync_repositories" /\ cached.some
             THEN sync_loop(took(c, cached.val, "cache"),
                            update_repository_sync(cfg, repo.id, Len(cached.val)),
                            cache_files)
             ELSE IF Len(split(repo.url, SEP)) # 2
             THEN sync_loop(failed(c, "Invalid repository URL", "", "invalid_url"),
                            cfg, cache_files)
             ELSE [c |-> [c EXCEPT !.awaiting = TRUE], config |-> cfg]

\* AppState::new, and the configuration file of a first run
CmdIdle ==
    /\ config = DefaultConfig
    /\ repo_cache = <<>>
    /\ skills_cache = <<>>
    /\ mutex = "free"
    /\ cmd = [p \in Slots |-> IdleCmd]

\* the keys of the front-matter
key_name == <<"n", "a", "m", "e">>
key_description == <<"d", "e", "s", "c", "r", "i", "p", "t", "i", "o", "n">>
key_author == <<"a", "u", "t", "h", "o", "r">>
key_tags == <<"t", "a", "g", "s">>

\* What a manifest's author writes, chunk by chunk. A chunk is one line of
\* front-matter, or a tag block with its items:
\*   scalar  key: value          value bare, in double or in single quotes,
\*                               or in two layers of quotes
\*   inline  tags: [a, b]        or  tags: a, b
\*   block   tags:               followed by one "- tag" line per tag
\*   item    - tag
\*   plain   a line without '-' and without ':'
NoQuote == <<>>
DoubleQuote == <<"\"">>
SingleQuote == <<"'">>
Scalar(key, quote, value) ==
    [kind |-> "scalar", key |-> key, quote |-> quote, value |-> value,
     tags |-> <<>>, brackets |-> FALSE]
Inline(tags, brackets) ==
    [kind |-> "inline", key |-> key_tags, quote |-> NoQuote, value |-> <<>>,
     tags |-> tags, brackets |-> brackets]
Block(tags) ==
    [kind |-> "block", key |-> key_tags, quote |-> NoQuote, value |-> <<>>,
     tags |-> tags, brackets |-> FALSE]
Item(tag) ==
    [kind |-> "item", key |-> <<>>, quote |-> NoQuote, value |-> <<>>,
     tags |-> <<tag>>, brackets |-> FALSE]
Plain(text) ==
    [kind |-> "plain", key |-> <<>>, quote |-> NoQuote, value |-> text,
     tags |-> <<>>, brackets |-> FALSE]

\* the tags a, b, c written "a, b, c"
RECURSIVE comma_separated(_)
comma_separated(tags) ==
    IF tags = <<>> THEN <<>>
    ELSE IF Len(tags) = 1 THEN tags[1]
    ELSE tags[1] \o <<",", " ">> \o comma_separated(Tail(tags))

\* the tags a, b written as the lines "- a", "- b", each after a line break
RECURSIVE item_lines(_)
item_lines(tags) ==
    IF tags = <<>> THEN <<>>
    ELSE <<NL, "-", " ">> \o tags[1] \o item_lines(Tail(tags))

\* the closing quotes of a value: the opening ones, innermost first
reversed(s) == [i \in 1..Len(s) |-> s[Len(s) + 1 - i]]

\* the text of a chunk
chunk_text(c) ==
    CASE c.kind = "scalar" ->
            c.key \o <<":", " ">> \o c.quote \o c.value \o reversed(c.quote)
      [] c.kind = "inline" ->
            c.key \o <<":", " ">> \o
            (IF c.brackets THEN <<"[">> \o comma_separated(c.tags) \o <<"]">>
             ELSE comma_separated(c.tags))
      [] c.kind = "block" -> c.key \o <<":">> \o item_lines(c.tags)
      [] c.kind = "item" -> <<"-", " ">> \o c.tags[1]
      [] OTHER -> c.value

RECURSIVE chunks_text(_)
chunks_text(cs) ==
    IF cs = <<>> THEN <<>>
    ELSE chunk_text(Head(cs)) \o <<NL>> \o chunks_text(Tail(cs))

\* the text after the front-matter: a heading and one paragraph
Paragraph == <<"L", "o", "n", "g", " ", "e", "n", "o", "u", "g", "h", " ", "t", "o", " ", "b", "e", " ", "i", "t", ".">>
AfterFrontMatter == <<NL, "#", " ", "T", NL, NL>> \o Paragraph \o <<NL>>

\* a heading and a line of five characters
ShortBody == <<NL, "#", " ", "T", NL, NL, "s", "h", "o", "r", "t", NL>>

\* a heading of more than 20 characters, a short line, an indented line of
\* 25 characters, then the paragraph
Indented == <<"I", "n", "d", "e", "n", "t", "e", "d", " ", "a", "n", "d", " ", "l", "o", "n", "g", " ", "e", "n", "o", "u", "g", "h", ".">>
MixedBody ==
    <<NL, "#", " ", "A", " ", "h", "e", "a", "d", "i", "n", "g", " ", "l", "o", "n", "g", "e", "r", " ", "t", "h", "a", "n", " ", "t", "w", "e", "n", "t", "y", NL, "s", "h", "o", "r", "t", NL>>
    \o <<" ", " ">> \o Indented \o <<" ", NL>> \o Paragraph \o <<NL>>

Bodies == {AfterFrontMatter, ShortBody, MixedBody}

Delimiter == <<"-", "-", "-">>

\* the text of a manifest: front-matter between two delimiters ("closed"),
\* an opening delimiter that nothing closes ("open"), or no front-matter
manifest_text(m) ==
    CASE m.frame = "closed" ->
            Delimiter \o <<NL>> \o chunks_text(m.chunks) \o Delimiter \o m.body
      [] m.frame = "open" -> Delimiter \o m.body
      [] OTHER -> Tail(m.body)

\* the chunks manifests are made of
TagP == <<"p">>
TagQ == <<"q", " ", "r">>
TagLists == {<<>>, <<TagP>>, <<TagQ, TagP>>}
ValueA == <<"A", " ", "b">>
Chunks ==
    {Scalar(key_name, q, ValueA) : q \in {NoQuote, DoubleQuote, SingleQuote}}
    \cup {Scalar(key_description, DoubleQuote, <<"D", ":", "x">>),
          Scalar(key_author, SingleQuote, <<"E">>),
          Scalar(key_author, DoubleQuote \o DoubleQuote, <<"E">>),
          Scalar(key_author, SingleQuote \o DoubleQuote, <<"E">>),
          Scalar(<<"x">>, NoQuote, <<"y">>)}
    \cup {Inline(tl, TRUE) : tl \in TagLists}
    \cup {Inline(tl, FALSE) : tl \in TagLists \ {<<>>}}
    \cup {Block(tl) : tl \in TagLists}
    \cup {Item(TagP), Plain(<<"z">>)}

\* the longest front-matter, in chunks
MaxChunks == 3

ChunkLists == UNION {[1..n -> Chunks] : n \in 0..MaxChunks}

Manifests ==
    {[frame |-> "closed", chunks |-> cs, body |-> AfterFrontMatter] : cs \in ChunkLists}
    \cup {[frame |-> f, chunks |-> <<>>, body |-> b] :
            f \in {"closed", "open", "none"}, b \in Bodies}

NotParsed ==
    [done |-> FALSE, name |-> NoneStr, description |-> NoneStr,
     author |-> NoneStr, tags |-> NoSkills, fallback |-> NoneStr]

\* no manifest is being parsed
ParseIdle ==
    /\ manifest = [frame |-> "none", chunks |-> <<>>, body |-> AfterFrontMatter]
    /\ parsed = NotParsed

\* ------------------------------------------------ categorize_skill alone
\* the texts given as name and as description: each keyword, a text without
\* keyword, a keyword in capitals, a keyword inside a word, and the two
\* words {:?} writes for an Option
Pieces ==
    {<<"c", "o", "d", "e">>,
     <<"d", "e", "v", "e", "l", "o", "p">>,
     <<"t", "e", "s", "t">>,
     <<"g", "i", "t">>,
     <<"d", "a", "t", "a">>,
     <<"c", "s", "v">>,
     <<"s", "q", "l">>,
     <<"a", "n", "a", "l", "y">>,
     <<"w", "r", "i", "t">>,
     <<"a", "r", "t", "i", "c", "l", "e">>,
     <<"c", "o", "n", "t", "e", "n", "t">>,
     <<"d", "o", "c">>,
     <<"b", "u", "s", "i", "n", "e", "s", "s">>,
     <<"m", "a", "r", "k", "e", "t">>,
     <<"l", "e", "a", "d">>,
     <<"s", "a", "l", "e", "s">>,
     <<"i", "m", "a", "g", "e">>,
     <<"v", "i", "d", "e", "o">>,
     <<"c", "r", "e", "a", "t", "i", "v", "e">>,
     <<"d", "e", "s", "i", "g", "n">>,
     <<"p", "r", "o", "d", "u", "c", "t", "i", "v">>,
     <<"o", "r", "g", "a", "n", "i", "z">>,
     <<"f", "i", "l", "e">>,
     <<"a", "u", "t", "o", "m", "a", "t">>,
     <<"x">>,
     <<"C", "O", "D", "E">>,
     <<"d", "e", "c", "o", "d", "e", "r">>,
     <<"n", "o", "n", "e">>,
     <<"s", "o", "m", "e">>}

TagOptions ==
    {NoSkills, SomeSkills(<< <<"x">> >>), SomeSkills(<< <<"s", "q", "l">> >>),
     SomeSkills(<< <<"x">>, <<"g", "i", "t">> >>)}

NoWords == [name |-> <<>>, desc |-> <<>>, tags |-> NoSkills]
NoCategory == [done |-> FALSE, val |-> "Other"]

CatIdle ==
    /\ words = NoWords
    /\ category = NoCategory

NoBuild == [owner |-> <<>>, repo |-> <<>>, dir_path |-> <<>>, git_ref |-> NoneStr,
            manifest |-> [frame |-> "none", chunks |-> <<>>, body |-> AfterFrontMatter]]
NoBuilt == [done |-> FALSE, skill |-> <<>>]

\* the calls of parse_skill_directory: a repository whose name holds '-',
\* its root, a directory in it and one two levels down
BuildOwners == {<<"o">>, <<"O", "-", "h">>}
BuildRepos == {<<"r", "-", "s">>}
BuildDirs == {<<>>, <<"m", "-", "y">>, <<"a", SEP, "m", "-", "y", "-", "k">>}
BuildRefs == {NoneStr, SomeStr(<<"v">>)}

\* the manifests served to it: name and description declared or not, with
\* and without a paragraph in the body
BuildChunks ==
    {<<>>,
     <<Scalar(key_name, DoubleQuote, ValueA)>>,
     <<Scalar(key_description, DoubleQuote, <<"D", ":", "x">>)>>,
     <<Scalar(key_name, NoQuote, ValueA),
       Scalar(key_description, DoubleQuote, <<"D", ":", "x">>),
       Inline(<<TagQ, TagP>>, TRUE)>>}
BuildManifests ==
    {[frame |-> "closed", chunks |-> cs, body |-> b] :
        cs \in BuildChunks, b \in {AfterFrontMatter, ShortBody}}
    \cup {[frame |-> "none", chunks |-> <<>>, body |-> b] :
            b \in {AfterFrontMatter, ShortBody}}

BuildIdle ==
    /\ build = NoBuild
    /\ built = NoBuilt

\* ------------------------------------------------------ GitHubService::new
\* the variables get_proxy_from_env reads, in its order
ProxyVariables ==
    <<"HTTPS_PROXY", "https_proxy", "HTTP_PROXY", "http_proxy", "ALL_PROXY", "all_proxy">>

\* std::env::var(name).ok(): the value of a variable that is set
env_var(e, name) == e[name]

\* get_proxy_from_env: the chain of .ok().or_else(..) over the variables
RECURSIVE first_set(_, _)
first_set(e, names) ==
    IF names = <<>> THEN NoneStr
    ELSE IF env_var(e, Head(names)).some THEN env_var(e, Head(names))
    ELSE first_set(e, Tail(names))

get_proxy_from_env(e) == first_set(e, ProxyVariables)

\* Proxy::all(url) is Ok for a proxy URL; what it makes of the empty string
\* is the HTTP library's business: either outcome
ProxyAllOk(url) == IF url = <<>> THEN {TRUE, FALSE} ELSE {TRUE}

\* a variable is unset, set to the empty string, or set to a proxy URL
EnvValues == {NoneStr, SomeStr(<<>>), SomeStr(<<"p1">>), SomeStr(<<"p2">>)}
Environments == [{ProxyVariables[i] : i \in 1..6} -> EnvValues]

NoProxy == [done |-> FALSE, val |-> NoneStr]

EnvIdle ==
    /\ env = <<>>
    /\ proxy = NoProxy

ConfIdle == conf = [name |-> "none", id |-> <<>>, result |-> FALSE]

\* the most entries the stored configuration gets
MaxRepos == 3

\* the arguments of the ConfigService calls: the builtin repository itself,
\* a repository whose id is the builtin id, and two spellings of one name
ConfRepos ==
    {[owner |-> <<"ComposioHQ">>, repo |-> <<"awesome-claude-skills">>],
     [owner |-> <<"composio">>, repo |-> <<"awesome">>],
     [owner |-> <<"o">>, repo |-> <<"r">>],
     [owner |-> <<"O">>, repo |-> <<"r">>]}
ConfBasePaths == {NoneStr, SomeStr(<<"b">>)}
ConfIds == {<<"composio", "-", "awesome">>, <<"o", "-", "r">>, <<"z">>}

\* the calls of install_skill that run at the same time
Installers == {"i1", "i2"}

NoInstall == [at |-> "idle", name |-> <<>>, files |-> <<>>, i |-> 0,
              err |-> NoSkillError, path |-> <<>>]

\* the file lists two downloads can hand over: the same skill fetched
\* twice, or two skill directories that have the same name
InstallLists ==
    { << <<<<"SKILL.md">>, <<"Alpha">>>>, <<<<"a.txt">>, <<"C">>>> >>,
      << <<<<"SKILL.md">>, <<"Sub">>>>, <<<<"scripts", SEP, "run.sh">>, <<"Sub">>>> >> }

InstIdle == inst = [p \in Installers |-> NoInstall]

\* the threads that call ConfigService at the same time: the main thread,
\* which runs the add_repository and remove_repository commands, and a
\* thread of the runtime, which runs a sync
Editors == {"command", "sync"}

NoEdit == [at |-> "idle", op |-> "none", owner |-> <<>>, repo |-> <<>>,
           base_path |-> NoneStr, git_ref |-> NoneStr, id |-> <<>>, count |-> 0,
           loaded |-> <<>>, url |-> <<>>, removed |-> FALSE]

EditIdle == edit = [p \in Editors |-> NoEdit]

RaceIdle == InstIdle /\ EditIdle

PureIdle == CatIdle /\ BuildIdle /\ EnvIdle /\ ConfIdle /\ RaceIdle

\* ------------------------------------------------------------ the system
Owners == {"acme"}
Repos == {"skills"}
GitRefs == {NoneStr, SomeStr(<<"main">>)}
BasePaths == {NoneStr, SomeStr(<<SEP>>), SomeStr(<<SEP, "a", SEP>>), SomeStr(<<"y">>),
              SomeStr(<<"s">>), SomeStr(<<"b", SEP, "c">>)}
DirPaths == {<<>>, <<SEP, "a", SEP>>, <<"b", SEP, "c">>, <<"e">>, <<"s">>}

Init ==
    /\ remote \in Trees
    /\ \E o \in Owners, r \in Repos, g \in GitRefs :
         \/ \E b \in BasePaths :
              args = [cmd |-> "scan_skills", owner |-> o, repo |-> r,
                      base_path |-> b, dir_path |-> <<>>, git_ref |-> g]
         \/ \E d \in DirPaths :
              args = [cmd |-> "download_directory_files", owner |-> o, repo |-> r,
                      base_path |-> NoneStr, dir_path |-> d, git_ref |-> g]
    /\ pc = "start"
    /\ queue = <<>>
    /\ visited = {}
    /\ skills = <<>>
    /\ files = <<>>
    /\ cur = NoCur
    /\ call = IdleCall
    /\ net = NoneStr
    /\ requests = <<>>
    /\ calls = <<>>
    /\ faults = 0
    /\ ret = Pending
    /\ DiskIdle
    /\ CmdIdle
    /\ ParseIdle
    /\ PureIdle

Next ==
    \/ scan_skills
    \/ scan_loop
    \/ scan_contents
    \/ scan_manifest
    \/ download_directory_files
    \/ dl_loop
    \/ dl_contents
    \/ dl_item
    \/ dl_file
    \/ ClientTransportFailure
    \/ ClientBackoffElapsed
    \/ ClientResponse

Spec == Init /\ [][Next]_vars

\* scan_skills alone, scheduled until it returns: the runtime keeps polling
\* the task and every Client call returns
InitScan ==
    /\ remote \in Trees \cup {Tree6}
    /\ \E o \in Owners, r \in Repos, g \in GitRefs, b \in BasePaths :
         args = [cmd |-> "scan_skills", owner |-> o, repo |-> r,
                 base_path |-> b, dir_path |-> <<>>, git_ref |-> g]
    /\ pc = "start"
    /\ queue = <<>>
    /\ visited = {}
    /\ skills = <<>>
    /\ files = <<>>
    /\ cur = NoCur
    /\ call = IdleCall
    /\ net = NoneStr
    /\ requests = <<>>
    /\ calls = <<>>
    /\ faults = 0
    /\ ret = Pending
    /\ DiskIdle
    /\ CmdIdle
    /\ ParseIdle
    /\ PureIdle

NextScan ==
    \/ scan_skills
    \/ scan_loop
    \/ scan_contents
    \/ scan_manifest
    \/ ClientTransportFailure
    \/ ClientBackoffElapsed
    \/ ClientResponse

\* scan_manifest is enabled exactly when the manifest fetch has returned to
\* the scan, and it always leaves that state
ManifestReturned == pc = "scan_await_manifest" /\ call.state = "returned"

\* weak fairness of scan_manifest, with its enabling condition written out
FairManifest == []<>(~ManifestReturned) \/ []<><<scan_manifest>>_vars

\* every step of the scan is taken once it can be, and every request is
\* answered or, after max_retries transport failures, given up
SpecScan ==
    /\ InitScan /\ [][NextScan]_vars
    /\ WF_vars(scan_skills) /\ WF_vars(scan_loop) /\ WF_vars(scan_contents)
    /\ FairManifest
    /\ WF_vars(ClientResponse) /\ WF_vars(ClientBackoffElapsed)

\* SkillService alone: no scan or download is running
ScanIdle ==
    /\ remote = Tree1
    /\ args = [cmd |-> "scan_skills", owner |-> "acme", repo |-> "skills",
               base_path |-> NoneStr, dir_path |-> <<>>, git_ref |-> NoneStr]
    /\ pc = "done"
    /\ queue = <<>>
    /\ visited = {}
    /\ skills = <<>>
    /\ files = <<>>
    /\ cur = NoCur
    /\ call = IdleCall
    /\ net = NoneStr
    /\ requests = <<>>
    /\ calls = <<>>
    /\ faults = 0
    /\ ret = Pending

\* the skills directory may or may not exist when the program starts
InitSkillService ==
    /\ ScanIdle
    /\ \E ds \in {Prefixes(Home \o <<".claude">>), Prefixes(Home \o <<".claude", "skills">>)} :
         disk = [dirs |-> ds, files |-> <<>>]
    /\ svc = NoOp
    /\ CmdIdle
    /\ ParseIdle
    /\ PureIdle

NextSkillService ==
    \/ InstallSkill
    \/ UninstallSkill
    \/ IsInstalled
    \/ GetSkillContent

SpecSkillService == InitSkillService /\ [][NextSkillService]_vars

\* ------------------------------------- install_skill calls side by side
\* The install_skill command is async: two invocations run on different
\* threads, and SkillService::install_skill takes no lock.  A call is a
\* sequence of file system operations, each of them atomic.
notInstVars ==
    <<scanVars, svc, cmdVars, parseVars, catVars, buildVars, envVars, conf, edit>>

\* SkillService::install_skill(skill_name, files) is entered
InstallEnter ==
    \E p \in Installers, n \in SkillNames, fl \in InstallLists :
        /\ inst[p].at = "idle"
        /\ inst' = [inst EXCEPT ![p] = [NoInstall EXCEPT !.at = "check",
                                                        !.name = n, !.files = fl]]
        /\ UNCHANGED disk
        /\ UNCHANGED notInstVars

\* get_skills_dir and `if skill_path.exists()`
InstallCheck ==
    \E p \in Installers :
        /\ inst[p].at = "check"
        /\ LET gd == get_skills_dir(disk)
               skill_path == join(gd.path, inst[p].name)
           IN  /\ disk' = gd.disk
               /\ inst' = [inst EXCEPT ![p] =
                     IF gd.err # NoSkillError
                     THEN [@ EXCEPT !.at = "done", !.err = gd.err]
                     ELSE IF already_installed(gd.disk, skill_path)
                     THEN [@ EXCEPT !.at = "done",
                                    !.err = SkillError_AlreadyInstalled(inst[p].name)]
                     ELSE [@ EXCEPT !.at = "create"]]
        /\ UNCHANGED notInstVars

\* fs::create_dir_all(&skill_path)?
InstallCreate ==
    \E p \in Installers :
        /\ inst[p].at = "create"
        /\ LET skill_path == join(Home \o <<".claude", "skills">>, inst[p].name)
               mk == create_dir_all(disk, skill_path)
           IN  /\ disk' = mk.disk
               /\ inst' = [inst EXCEPT ![p] =
                     IF mk.ok THEN [@ EXCEPT !.at = "write", !.i = 1]
                     ELSE [@ EXCEPT !.at = "done",
                                    !.err = SkillError_Io("create_dir_all")]]
        /\ UNCHANGED notInstVars

\* one round of `for (relative_path, content) in files`, or the Ok after
\* the last one
InstallWrite ==
    \E p \in Installers :
        /\ inst[p].at = "write"
        /\ LET c == inst[p]
               skill_path == join(Home \o <<".claude", "skills">>, c.name)
               wr == install_files(disk, skill_path, <<c.files[c.i]>>, 1, 0)
           IN  IF c.i > Len(c.files)
               THEN /\ inst' = [inst EXCEPT ![p] =
                            [@ EXCEPT !.at = "done",
                                      !.path = to_string_lossy(skill_path)]]
                    /\ UNCHANGED disk
               ELSE /\ disk' = wr.disk
                    /\ inst' = [inst EXCEPT ![p] =
                            IF wr.err # NoSkillError
                            THEN [@ EXCEPT !.at = "done", !.err = wr.err]
                            ELSE [@ EXCEPT !.i = @ + 1]]
        /\ UNCHANGED notInstVars

InitInstallers ==
    /\ ScanIdle
    /\ DiskIdle
    /\ CmdIdle
    /\ ParseIdle
    /\ PureIdle

NextInstallers ==
    \/ InstallEnter
    \/ InstallCheck
    \/ InstallCreate
    \/ InstallWrite

SpecInstallers == InitInstallers /\ [][NextInstallers]_vars

\* ----------------------------------- ConfigService calls side by side
\* Every ConfigService function loads config.json, changes its copy and
\* saves the copy (config.rs 84-104); nothing is locked.  The commands
\* add_repository and remove_repository are not async and run on the main
\* thread; a sync is async and calls update_repository_sync from a thread
\* of the runtime.  Each load and each save is atomic.
notEditVars ==
    <<scanVars, diskVars, repo_cache, skills_cache, mutex, cmd, parseVars,
      catVars, buildVars, envVars, conf, inst>>

\* the configuration file when the calls begin
EditConfigs ==
    {DefaultConfig,
     add_repository(DefaultConfig, <<"o">>, <<"r">>, NoneStr, NoneStr).config}

\* the add_repository or remove_repository command is invoked
EditCommand ==
    /\ edit["command"].at = "idle"
    /\ \/ \E o \in ConfRepos, b \in ConfBasePaths :
            edit' = [edit EXCEPT !["command"] =
                        [NoEdit EXCEPT !.at = "load", !.op = "add_repository",
                                       !.owner = o.owner, !.repo = o.repo,
                                       !.base_path = b]]
       \/ \E id \in ConfIds :
            edit' = [edit EXCEPT !["command"] =
                        [NoEdit EXCEPT !.at = "load", !.op = "remove_repository",
                                       !.id = id]]
    /\ UNCHANGED config
    /\ UNCHANGED notEditVars

\* a running sync calls update_repository_sync for a repository of the
\* list it took when it started
EditSync ==
    /\ edit["sync"].at \in {"idle", "done"}
    /\ \E id \in ConfIds, n \in {0, 2} :
         edit' = [edit EXCEPT !["sync"] =
                     [NoEdit EXCEPT !.at = "load", !.op = "update_repository_sync",
                                    !.id = id, !.count = n]]
    /\ UNCHANGED config
    /\ UNCHANGED notEditVars

\* let mut config = Self::load()?
EditLoad ==
    \E p \in Editors :
        /\ edit[p].at = "load"
        /\ edit' = [edit EXCEPT ![p].at = "save", ![p].loaded = config]
        /\ UNCHANGED config
        /\ UNCHANGED notEditVars

\* the copy is changed and, when the function saves, written back
EditSave ==
    \E p \in Editors :
        /\ edit[p].at = "save"
        /\ LET e == edit[p]
               added == add_repository(e.loaded, e.owner, e.repo, e.base_path, e.git_ref)
               removed == remove_repository(e.loaded, e.id)
               synced == update_repository_sync(e.loaded, e.id, e.count)
           IN  CASE e.op = "add_repository" ->
                      /\ config' = IF added.config # e.loaded THEN added.config ELSE config
                      /\ edit' = [edit EXCEPT ![p].at = "done",
                                              ![p].url = added.result.url]
                 [] e.op = "remove_repository" ->
                      /\ config' = IF removed.result THEN removed.config ELSE config
                      /\ edit' = [edit EXCEPT ![p].at = "done",
                                              ![p].removed = removed.result]
                 [] OTHER ->
                      /\ config' = IF \E i \in 1..Len(e.loaded) : e.loaded[i].id = e.id
                                   THEN synced ELSE config
                      /\ edit' = [edit EXCEPT ![p].at = "done"]
        /\ UNCHANGED notEditVars

InitEditors ==
    /\ ScanIdle
    /\ DiskIdle
    /\ config \in EditConfigs
    /\ repo_cache = <<>>
    /\ skills_cache = <<>>
    /\ mutex = "free"
    /\ cmd = [p \in Slots |-> IdleCmd]
    /\ ParseIdle
    /\ PureIdle

NextEditors ==
    \/ EditCommand
    \/ EditSync
    \/ EditLoad
    \/ EditSave

SpecEditors == InitEditors /\ [][NextEditors]_vars

\* ------------------------------------------------ the commands as a system
Finished(c) == c.at = 0 \/ c.at > Len(phases(c.name))

OwnerArgs == {<<"o">>}
RepoArgs == {<<"r", "_", "s">>, <<"r", SEP, "s">>}
BasePathArgs == {NoneStr}
GitRefArgs == {NoneStr}

\* a command is invoked
fetch_store_skills ==
    \E p \in Slots, o \in OwnerArgs, r \in RepoArgs :
        /\ Finished(cmd[p])
        /\ cmd' = [cmd EXCEPT ![p] = [IdleCmd EXCEPT !.name = "fetch_store_skills",
                                                     !.at = 1, !.owner = o, !.repo = r]]
        /\ UNCHANGED <<config, repo_cache, skills_cache, mutex>>
        /\ UNCHANGED notCmdVars

sync_repositories ==
    \E p \in Slots :
        /\ Finished(cmd[p])
        /\ cmd' = [cmd EXCEPT ![p] = [IdleCmd EXCEPT !.name = "sync_repositories",
                                                     !.at = 1, !.i = 1,
                                                     !.repositories = config]]
        /\ UNCHANGED <<config, repo_cache, skills_cache, mutex>>
        /\ UNCHANGED notCmdVars

force_sync_repositories ==
    \E p \in Slots :
        /\ Finished(cmd[p])
        /\ repo_cache' = clear_all_cache(repo_cache)
        /\ cmd' = [cmd EXCEPT ![p] = [IdleCmd EXCEPT !.name = "force_sync_repositories",
                                                     !.at = 1, !.i = 1,
                                                     !.repositories = config]]
        /\ UNCHANGED <<config, skills_cache, mutex>>
        /\ UNCHANGED notCmdVars

get_cached_skills ==
    \E p \in Slots :
        /\ Finished(cmd[p])
        /\ cmd' = [cmd EXCEPT ![p] = [IdleCmd EXCEPT !.name = "get_cached_skills",
                                                     !.at = 1]]
        /\ UNCHANGED <<config, repo_cache, skills_cache, mutex>>
        /\ UNCHANGED notCmdVars

\* the add_repository command
AddRepository ==
    \E o \in OwnerArgs, r \in RepoArgs, b \in BasePathArgs, g \in GitRefArgs :
        LET added == add_repository(config, o, r, b, g)
        IN  /\ config' = added.config
            /\ repo_cache' = IF b.some \/ g.some
                             THEN clear_repo_cache(repo_cache, added.result.id)
                             ELSE repo_cache
            /\ UNCHANGED <<skills_cache, mutex, cmd>>
            /\ UNCHANGED notCmdVars

\* fetch_store_skills calls scan_skills and is suspended
CallScan ==
    \E p \in Slots :
        /\ phase(cmd[p]) = "scan" /\ ~cmd[p].awaiting
        /\ cmd' = [cmd EXCEPT ![p].awaiting = TRUE]
        /\ UNCHANGED <<config, repo_cache, skills_cache, mutex>>
        /\ UNCHANGED notCmdVars

\* the loop of a sync runs up to its next scan_skills call or to its end
RunLoop ==
    \E p \in Slots :
        /\ phase(cmd[p]) = "repos" /\ ~cmd[p].awaiting
        /\ LET r == sync_loop(cmd[p], config, repo_cache)
           IN  /\ cmd' = [cmd EXCEPT ![p] = r.c]
               /\ config' = r.config
        /\ UNCHANGED <<repo_cache, skills_cache, mutex>>
        /\ UNCHANGED notCmdVars

\* scan_skills returns to the command that awaits it
ScanReturns ==
    \E p \in Slots :
        /\ cmd[p].awaiting
        /\ LET c == cmd[p]
               repo == c.repositories[c.i]
               parts == split(repo.url, SEP)
           IN  IF c.name = "fetch_store_skills"
               THEN \E out \in ScanOutcomes(c.owner, c.repo) :
                      /\ cmd' = [cmd EXCEPT ![p] =
                                   IF out.ok
                                   THEN [c EXCEPT !.awaiting = FALSE,
                                                  !.all_skills = out.found,
                                                  !.at = @ + 1]
                                   ELSE [c EXCEPT !.awaiting = FALSE,
                                                  !.at = Len(phases(c.name)) + 1,
                                                  !.ret = [NoRet EXCEPT !.state = "Err"]]]
                      /\ mutex' = IF ~out.ok /\ mutex = p THEN "free" ELSE mutex
                      /\ UNCHANGED <<config, repo_cache>>
               ELSE \E out \in ScanOutcomesAt(parts[1], parts[2], repo.base_path) :
                      /\ cmd' = [cmd EXCEPT ![p] =
                                   IF out.ok
                                   THEN [took(c, out.found, "scan_ok")
                                            EXCEPT !.awaiting = FALSE]
                                   ELSE [failed(c, "", out.e, "scan_err")
                                            EXCEPT !.awaiting = FALSE]]
                      /\ repo_cache' = IF out.ok
                                       THEN save_repo_cache(repo_cache, repo.id, out.found)
                                       ELSE repo_cache
                      /\ config' = IF out.ok
                                   THEN update_repository_sync(config, repo.id,
                                                               Len(out.found))
                                   ELSE config
                      /\ UNCHANGED mutex
        /\ UNCHANGED skills_cache
        /\ UNCHANGED notCmdVars

\* state.skills_cache.lock(): the caller waits while another holds the lock
Lock ==
    \E p \in Slots :
        /\ phase(cmd[p]) = "lock" /\ ~cmd[p].awaiting
        /\ mutex = "free"
        /\ mutex' = p
        /\ cmd' = [cmd EXCEPT ![p].at = @ + 1]
        /\ UNCHANGED <<config, repo_cache, skills_cache>>
        /\ UNCHANGED notCmdVars

\* *cache = ...  or  cache.clone()
Store ==
    \E p \in Slots :
        /\ phase(cmd[p]) = "store" /\ ~cmd[p].awaiting
        /\ mutex = p
        /\ IF cmd[p].name = "get_cached_skills"
           THEN /\ cmd' = [cmd EXCEPT ![p].all_skills = skills_cache, ![p].at = @ + 1]
                /\ UNCHANGED skills_cache
           ELSE /\ skills_cache' = cmd[p].all_skills
                /\ cmd' = [cmd EXCEPT ![p].at = @ + 1]
        /\ UNCHANGED <<config, repo_cache, mutex>>
        /\ UNCHANGED notCmdVars

\* the command returns Ok and its guard is dropped
Return ==
    \E p \in Slots :
        /\ phase(cmd[p]) = "return" /\ ~cmd[p].awaiting
        /\ cmd' = [cmd EXCEPT ![p].at = @ + 1,
                              ![p].ret = [state |-> "Ok",
                                          success |-> cmd[p].errors = <<>>,
                                          skills_found |-> cmd[p].total_count,
                                          value |-> cmd[p].all_skills]]
        /\ mutex' = IF mutex = p THEN "free" ELSE mutex
        /\ UNCHANGED <<config, repo_cache, skills_cache>>
        /\ UNCHANGED notCmdVars

\* the add_repository command gives a repository a base path
ChangeBasePath ==
    \E o \in OwnerArgs :
        LET added == add_repository(config, o, <<"r", "_", "s">>, SomeStr(<<"b">>), NoneStr)
        IN  /\ config' = added.config
            /\ repo_cache' = clear_repo_cache(repo_cache, added.result.id)
            /\ UNCHANGED <<skills_cache, mutex, cmd>>
            /\ UNCHANGED notCmdVars

\* syncs of a configuration that holds the repository o/r_s, and the
\* add_repository command that gives it a base path
InitResync ==
    /\ ScanIdle
    /\ DiskIdle
    /\ config = add_repository(DefaultConfig, <<"o">>, <<"r", "_", "s">>,
                               NoneStr, NoneStr).config
    /\ repo_cache = <<>>
    /\ skills_cache = <<>>
    /\ mutex = "free"
    /\ cmd = [p \in Slots |-> IdleCmd]
    /\ ParseIdle
    /\ PureIdle

NextResync ==
    \/ sync_repositories
    \/ ChangeBasePath
    \/ RunLoop
    \/ ScanReturns
    \/ Lock
    \/ Store
    \/ Return

SpecResync == InitResync /\ [][NextResync]_vars

InitCommands ==
    /\ ScanIdle
    /\ DiskIdle
    /\ CmdIdle
    /\ ParseIdle
    /\ PureIdle

NextCommands ==
    \/ fetch_store_skills
    \/ sync_repositories
    \/ force_sync_repositories
    \/ get_cached_skills
    \/ AddRepository
    \/ CallScan
    \/ RunLoop
    \/ ScanReturns
    \/ Lock
    \/ Store
    \/ Return

SpecCommands == InitCommands /\ [][NextCommands]_vars

\* ---------------------------------------------------- the parser alone
\* parse_skill_md applied to the manifest
ParseSkillMd ==
    /\ ~parsed.done
    /\ LET r == parse_skill_md(manifest_text(manifest))
       IN  parsed' = [done |-> TRUE, name |-> r.name,
                      description |-> r.description, author |-> r.author,
                      tags |-> r.tags, fallback |-> r.fallback]
    /\ UNCHANGED manifest
    /\ UNCHANGED notParseVars

InitParser ==
    /\ ScanIdle
    /\ DiskIdle
    /\ CmdIdle
    /\ manifest \in Manifests
    /\ parsed = NotParsed
    /\ PureIdle

NextParser ==
    \/ ParseSkillMd

SpecParser == InitParser /\ [][NextParser]_vars

CategorizeSkill ==
    /\ ~category.done
    /\ category' = [done |-> TRUE,
                    val |-> categorize_skill(words.name, words.desc, words.tags)]
    /\ UNCHANGED words
    /\ UNCHANGED notCatVars

InitCategorize ==
    /\ ScanIdle
    /\ DiskIdle
    /\ CmdIdle
    /\ ParseIdle
    /\ BuildIdle /\ EnvIdle /\ ConfIdle /\ RaceIdle
    /\ \E n \in Pieces, d \in Pieces, tg \in TagOptions :
         words = [name |-> n, desc |-> d, tags |-> tg]
    /\ category = NoCategory

NextCategorize ==
    \/ CategorizeSkill

SpecCategorize == InitCategorize /\ [][NextCategorize]_vars

\* --------------------------------------------- parse_skill_directory alone
ParseSkillDirectory ==
    /\ ~built.done
    /\ built' = [done |-> TRUE,
                 skill |-> build_skill(build.owner, build.repo, build.dir_path,
                                       build.git_ref, manifest_text(build.manifest))]
    /\ UNCHANGED build
    /\ UNCHANGED notBuildVars

InitSkillDirectory ==
    /\ ScanIdle
    /\ DiskIdle
    /\ CmdIdle
    /\ ParseIdle
    /\ CatIdle /\ EnvIdle /\ ConfIdle /\ RaceIdle
    /\ \E o \in BuildOwners, r \in BuildRepos, d \in BuildDirs, g \in BuildRefs,
          m \in BuildManifests :
         build = [owner |-> o, repo |-> r, dir_path |-> d, git_ref |-> g,
                  manifest |-> m]
    /\ built = NoBuilt

NextSkillDirectory ==
    \/ ParseSkillDirectory

SpecSkillDirectory == InitSkillDirectory /\ [][NextSkillDirectory]_vars

\* ------------------------------------------------- ConfigService alone
notConfVars == <<scanVars, diskVars, parseVars, catVars, buildVars, envVars,
                 repo_cache, skills_cache, mutex, cmd, raceVars>>

ConfigAddRepository ==
    /\ Len(config) < MaxRepos
    /\ \E a \in ConfRepos, b \in ConfBasePaths :
         LET r == add_repository(config, a.owner, a.repo, b, NoneStr)
         IN  /\ config' = r.config
             /\ conf' = [name |-> "add_repository", id |-> r.result.id, result |-> TRUE]
    /\ UNCHANGED notConfVars

ConfigRemoveRepository ==
    /\ \E id \in ConfIds :
         LET r == remove_repository(config, id)
         IN  /\ config' = r.config
             /\ conf' = [name |-> "remove_repository", id |-> id, result |-> r.result]
    /\ UNCHANGED notConfVars

ConfigUpdateRepositorySync ==
    /\ \E id \in ConfIds, n \in {2} :
         /\ config' = update_repository_sync(config, id, n)
         /\ conf' = [name |-> "update_repository_sync", id |-> id, result |-> TRUE]
    /\ UNCHANGED notConfVars

InitConfig ==
    /\ ScanIdle
    /\ DiskIdle
    /\ CmdIdle
    /\ ParseIdle
    /\ PureIdle

NextConfig ==
    \/ ConfigAddRepository
    \/ ConfigRemoveRepository
    \/ ConfigUpdateRepositorySync

SpecConfig == InitConfig /\ [][NextConfig]_vars

\* ------------------------------------------------ GitHubService::new alone
\* the client builder gets the proxy of the environment, if there is one
\* and Proxy::all accepts it
NewGitHubService ==
    /\ ~proxy.done
    /\ LET found == get_proxy_from_env(env)
       IN  IF found.some
           THEN \E ok \in ProxyAllOk(found.val) :
                    proxy' = [done |-> TRUE, val |-> IF ok THEN found ELSE NoneStr]
           ELSE proxy' = [done |-> TRUE, val |-> NoneStr]
    /\ UNCHANGED env
    /\ UNCHANGED notEnvVars

InitClient ==
    /\ ScanIdle
    /\ DiskIdle
    /\ CmdIdle
    /\ ParseIdle
    /\ CatIdle /\ BuildIdle /\ ConfIdle /\ RaceIdle
    /\ env \in Environments
    /\ proxy = NoProxy

NextClient ==
    \/ NewGitHubService

SpecClient == InitClient /\ [][NextClient]_vars


TypeOK ==
    /\ pc \in {"start", "scan_loop", "scan_await_contents", "scan_await_manifest",
               "dl_loop", "dl_await_contents", "dl_items", "dl_await_file", "done"}
    /\ call.sent \in 0..max_retries
    /\ faults \in 0..MaxTransportFaults
    /\ ret.state \in {"pending", "Ok", "Err"}

\* =================================================================
\* Properties of scan_skills
\* =================================================================
IsScan == args.cmd = "scan_skills"

\* the normalized base path of the running scan
NormBase == trim_matches(unwrap_or(args.base_path, <<>>), SEP)

Segments(p) == Len(SelectSeq(p, LAMBDA t : t # SEP))

\* depth of a directory path below the base path (the base is at depth 0)
DepthOf(p) == Segments(p) - Segments(NormBase)

IsProperDescendant(p, d) ==
    /\ Len(p) > Len(d)
    /\ SubSeq(p, 1, Len(d)) = d
    /\ (d = <<>> \/ p[Len(d) + 1] = SEP)

InScope(d) == d = NormBase \/ IsProperDescendant(d, NormBase)

\* the remote directory d holds a file named SKILL.md
HasManifest(d) ==
    /\ d \in DOMAIN remote
    /\ \E i \in 1..Len(remote[d]) :
          remote[d][i].content_type = "file" /\ remote[d][i].name = "SKILL.md"

ExpectedId(d) ==
    IF d = <<>> THEN <<args.owner, SEP, args.repo>>
    ELSE <<args.owner, SEP, args.repo, SEP>> \o d

\* the directory a Skill was built for, read off its id
SkillDir(sk) == IF Len(sk.id) <= 3 THEN <<>> ELSE SubSeq(sk.id, 5, Len(sk.id))

ListingCalls == {i \in 1..Len(calls) : calls[i].op = "fetch_contents"}

\* C1: during one scan_skills call no directory path is listed twice: for
\* every path there is at most one fetch_contents call, even when the path
\* was enqueued several times.
C1_NoDirectoryListedTwice ==
    IsScan =>
        \A i, j \in ListingCalls : calls[i].path = calls[j].path => i = j

\* a finished scan in which some listed directory named the same
\* subdirectory twice, so that its path was enqueued twice
C1_Witness ==
    /\ IsScan /\ ret.state = "Ok"
    /\ \E p \in visited \cap DOMAIN remote :
         \E i, j \in 1..Len(remote[p]) :
            /\ i < j
            /\ remote[p][i].content_type = "dir"
            /\ remote[p][j].content_type = "dir"
            /\ remote[p][i].name = remote[p][j].name
            /\ RemotePath(p, remote[p][i].name) \in visited

\* C2: scan_skills prunes at depth 3: no directory at depth 4 or deeper is
\* listed and no Skill comes from one; a directory at depth 3 is listed and
\* yields a Skill when it holds SKILL.md; the scan fails only with the error
\* of a Client call, never because a branch ended at depth 3.
C2_DepthPruning ==
    IsScan =>
        /\ \A i \in ListingCalls : DepthOf(calls[i].path) <= 3
        /\ \A q \in 1..Len(queue) : DepthOf(queue[q].path) <= 3
        /\ \A k \in 1..Len(skills) : DepthOf(SkillDir(skills[k])) <= 3
        /\ ret.state = "Ok" =>
              \A i \in ListingCalls :
                 (DepthOf(calls[i].path) = 3 /\ HasManifest(calls[i].path)) =>
                    \E k \in 1..Len(ret.skills) :
                        ret.skills[k].id = ExpectedId(calls[i].path)
        /\ ret.state = "Err" => (~call.result.ok /\ ret.err = call.result.err)

\* a scan that returned Ok after listing a depth-3 directory without a
\* manifest whose child holds one (at depth 4), and a depth-3 directory
\* with a manifest
C2_Witness ==
    /\ IsScan /\ ret.state = "Ok"
    /\ \E d \in visited \cap DOMAIN remote :
         /\ DepthOf(d) = 3 /\ ~HasManifest(d)
         /\ \E i \in 1..Len(remote[d]) : HasManifest(RemotePath(d, remote[d][i].name))
    /\ \E k \in 1..Len(ret.skills) : DepthOf(SkillDir(ret.skills[k])) = 3

\* C3: a listed directory that holds SKILL.md is terminal: nothing below it
\* is enqueued or listed and no Skill is built for anything below it; when
\* the base directory holds SKILL.md there is exactly one listing request
\* and a scan that returns returns exactly one Skill.
C3_SkillDirectoryTerminal ==
    IsScan =>
        /\ \A d \in visited : HasManifest(d) =>
              /\ \A q \in 1..Len(queue) : ~IsProperDescendant(queue[q].path, d)
              /\ \A i \in 1..Len(calls) :
                    calls[i].op = "fetch_contents" => ~IsProperDescendant(calls[i].path, d)
              /\ \A k \in 1..Len(skills) : ~IsProperDescendant(SkillDir(skills[k]), d)
        /\ HasManifest(NormBase) =>
              /\ Cardinality(ListingCalls) <= 1
              /\ pc = "done" => Cardinality(ListingCalls) = 1
              /\ ret.state = "Ok" => Len(ret.skills) = 1

\* a scan that returned from a base directory holding SKILL.md next to a
\* subdirectory that holds one too
C3_Witness ==
    /\ IsScan /\ ret.state = "Ok"
    /\ HasManifest(NormBase)
    /\ \E i \in 1..Len(remote[NormBase]) :
          /\ remote[NormBase][i].content_type = "dir"
          /\ HasManifest(RemotePath(NormBase, remote[NormBase][i].name))

\* the skill directories the scan has to report, as a set
ExpectedDirs ==
    {d \in DOMAIN remote :
        /\ InScope(d) /\ DepthOf(d) <= 3 /\ HasManifest(d)
        /\ \A anc \in DOMAIN remote :
              (InScope(anc) /\ IsProperDescendant(d, anc)) => ~HasManifest(anc)}

RECURSIVE Dedup(_, _)
Dedup(seq, seen) ==
    IF seq = <<>> THEN <<>>
    ELSE IF Head(seq) \in seen THEN Dedup(Tail(seq), seen)
    ELSE <<Head(seq)>> \o Dedup(Tail(seq), seen \cup {Head(seq)})

ChildDirs(d) ==
    IF d \notin DOMAIN remote THEN <<>>
    ELSE LET ds == SelectSeq(remote[d], LAMBDA ch : ch.content_type = "dir")
         IN [i \in 1..Len(ds) |-> RemotePath(d, ds[i].name)]

RECURSIVE LevelChildren(_)
LevelChildren(level) ==
    IF level = <<>> THEN <<>>
    ELSE ChildDirs(Head(level)) \o LevelChildren(Tail(level))

\* the skill directories level by level, each level in listing order
RECURSIVE BreadthFirst(_, _)
BreadthFirst(level, depth) ==
    IF depth > 3 \/ level = <<>> THEN <<>>
    ELSE SelectSeq(level, HasManifest)
         \o BreadthFirst(Dedup(LevelChildren(SelectSeq(level, LAMBDA d : ~HasManifest(d))), {}),
                         depth + 1)

\* C4: a scan whose Client calls all succeed returns exactly one Skill for
\* each directory at depth <= 3 below the base that holds SKILL.md and has
\* no ancestor (from the base down) holding one, nothing else, in
\* breadth-first order; a/SKILL.md and b/c/SKILL.md give the ids
\* owner/repo/a and owner/repo/b/c in that order.
C4_ScanResult ==
    (IsScan /\ ret.state = "Ok") =>
        LET ids == [k \in 1..Len(ret.skills) |-> ret.skills[k].id]
            bfs == BreadthFirst(<<NormBase>>, 0)
        IN  /\ {ids[k] : k \in 1..Len(ids)} = {ExpectedId(d) : d \in ExpectedDirs}
            /\ Len(ids) = Cardinality(ExpectedDirs)
            /\ ids = [k \in 1..Len(bfs) |-> ExpectedId(bfs[k])]
            /\ (remote = Tree1 /\ NormBase = <<>>) =>
                  ids = << <<"acme", SEP, "skills", SEP, "a">>,
                           <<"acme", SEP, "skills", SEP, "b", SEP, "c">> >>

\* the scan of the whole repository with a/SKILL.md and b/c/SKILL.md
\* has returned its two Skills
C4_Witness ==
    /\ IsScan /\ ret.state = "Ok"
    /\ remote = Tree1 /\ NormBase = <<>>
    /\ Len(ret.skills) = 2

\* C5: scan_skills aborts on the first Client error of a listing or
\* manifest fetch: a failed call is followed by nothing but the return of
\* its error; the return carries no Skill; the failing call is the last
\* call started and its last request the last request sent.
C5_AbortOnFirstError ==
    IsScan =>
        /\ (call.state = "returned" /\ ~call.result.ok) =>
              \/ pc \in {"scan_await_contents", "scan_await_manifest"}
              \/ pc = "done" /\ ret.state = "Err" /\ ret.err = call.result.err
        /\ ret.state = "Err" =>
              /\ ret.skills = <<>>
              /\ call.state = "returned" /\ ~call.result.ok
              /\ net = NoneStr
              /\ calls[Len(calls)] = [op |-> call.op, path |-> call.path]
              /\ requests[Len(requests)].url = call.url

\* a scan that failed after it had accumulated a Skill and while
\* directories were still queued
C5_Witness ==
    /\ IsScan /\ ret.state = "Err"
    /\ skills # <<>>
    /\ queue # <<>>

\* =================================================================
\* Properties of the Client
\* =================================================================
\* the requests of the log that were sent to the URL of the current call
RequestsOfCall == {i \in 1..Len(requests) : requests[i].url = call.url}

C7_RetryPolicy ==
    /\ call.sent <= 3
    /\ call.sent >= 2 =>
          /\ call.last_error.some
          /\ call.last_error.val.msg = "transport"
          /\ call.last_error.val.attempt >= call.sent - 1
    /\ call.state = "sent" =>
          (call.last_error.some => call.last_error.val.attempt = call.sent - 1)
    /\ call.status # 0 =>
          /\ call.state = "returned"
          /\ net = NoneStr
          /\ requests[Len(requests)].attempt + 1 = call.sent
          /\ call.last_error.some => call.last_error.val.attempt = call.sent - 1
    /\ (call.state = "returned" /\ call.status = 0) =>
          /\ call.sent = 3
          /\ call.result = [ok |-> FALSE, contents |-> <<>>, text |-> <<>>,
                            bytes |-> <<>>,
                            err |-> [kind |-> "Network", path |-> <<>>,
                                     attempt |-> 3, msg |-> "transport"]]

\* a call whose three attempts all failed at transport level
C7_Witness ==
    /\ call.state = "returned" /\ call.status = 0
    /\ call.sent = 3
    /\ call.result.err.kind = "Network"

\* C8 as stated: the wait after the failure of attempt i (1-based) is
\* 500ms * 2^(i-1), i.e. 500 ms before the second attempt and 1000 ms
\* before the third.
C8_WaitFromFailedAttempt ==
    \A i \in 1..Len(call.waits) : call.waits[i] = 500 * 2^(i - 1)

\* C8 amended: the wait before attempt n (1-based, n >= 2) is
\* 500ms * 2^(n-1): 1000 ms before the second attempt and 2000 ms before
\* the third; no wait precedes the first attempt.
C8_WaitBeforeAttempt ==
    /\ \A i \in 1..Len(call.waits) : call.waits[i] = 500 * 2^((i + 1) - 1)
    /\ call.waits \in {<<>>, <<1000>>, <<1000, 2000>>}
    /\ call.state = "sent" => Len(call.waits) = call.sent - 1
    /\ call.state = "sleeping" => Len(call.waits) = call.sent

\* a call that has waited before its second and before its third attempt
C8_Witness ==
    /\ call.state = "sent" /\ call.sent = 3
    /\ Len(call.waits) = 2

\* C9 as stated: whatever the Client operation, a 403 response makes it
\* fail with RateLimited and a 404 response with NotFound.
C9_StatusMapping ==
    call.state = "returned" =>
        /\ call.status = 403 => (~call.result.ok /\ call.result.err.kind = "RateLimited")
        /\ call.status = 404 => (~call.result.ok /\ call.result.err.kind = "NotFound")

\* C10 as stated: whatever the Client operation, a response with a status
\* outside 2xx other than 403 and 404, and a 2xx response whose body is
\* malformed JSON, make it fail with Parse.
C10_ParseOnUnexpected ==
    (call.state = "returned" /\ call.status # 0) =>
        /\ (call.status \notin 200..299 /\ call.status \notin {403, 404}) =>
              (~call.result.ok /\ call.result.err.kind = "Parse")
        /\ (call.status \in 200..299 /\ call.body = "malformed") =>
              (~call.result.ok /\ call.result.err.kind = "Parse")

\* =================================================================
\* Properties of SkillService
\* =================================================================
SkillsRoot == Home \o <<".claude", "skills">>

\* the directory of the skill called n, n a plain directory name
SkillPath(n) == SkillsRoot \o n

FilesBelow(d, p) == {f \in DOMAIN d.files : IsPrefix(p, f)}

\* C11: an install_skill whose file list holds, anywhere, a path that is
\* absolute or has a parent-directory segment fails with an input error and
\* has written nothing: no skill directory was created, no file was written.
C11_RejectBeforeWriting ==
    [][(/\ svc'.kind = "install_skill"
        /\ svc'.invalid
        /\ ~exists(disk, SkillPath(svc'.name)))
       => /\ svc'.err.kind = "Io"
          /\ ~exists(disk', SkillPath(svc'.name))
          /\ disk'.files = disk.files]_vars

\* C12: installation is atomic: after install_skill(name, files) returned
\* an error for an invalid path or a failed write, no directory called name
\* exists, is_installed(name) is false and a later install_skill(name, ...)
\* is not rejected as AlreadyInstalled.
C12_AtomicInstall ==
    (svc.kind = "install_skill" /\ svc.err.kind = "Io")
    => /\ ~exists(disk, SkillPath(svc.name))
       /\ ~is_installed(disk, svc.name).installed
       /\ \A fl \in FileLists :
            install_skill(disk, svc.name, fl, 0).err.kind # "AlreadyInstalled"

\* C13: install_skill(name, files) on a name whose directory exists fails
\* with AlreadyInstalled and leaves the file system as it was.
C13_AlreadyInstalledFrame ==
    [][(svc'.kind = "install_skill" /\ SkillPath(svc'.name) \in disk.dirs)
       => /\ svc'.err = SkillError_AlreadyInstalled(svc'.name)
          /\ disk' = disk]_vars

\* an install whose list holds a manifest was refused, and the directory,
\* which has files, still has no manifest
C13_Witness ==
    /\ svc.kind = "install_skill"
    /\ svc.err.kind = "AlreadyInstalled"
    /\ svc.manifest # {}
    /\ FilesBelow(disk, SkillPath(svc.name)) # {}
    /\ SkillPath(svc.name) \o <<"SKILL.md">> \notin DOMAIN disk.files

\* C14: once install_skill(name, files) succeeded with an entry SKILL.md
\* of content c, get_skill_content(name) returns c, and whatever it returns
\* it goes on returning until uninstall_skill(name) is called.
C14_RoundTrip ==
    [][\A n \in SkillNames :
        /\ (/\ svc'.kind = "install_skill" /\ svc'.name = n
            /\ svc'.err = NoSkillError
            /\ Cardinality(svc'.manifest) = 1)
           => /\ get_skill_content(disk', n).err = NoSkillError
              /\ {get_skill_content(disk', n).content} = svc'.manifest
        /\ (/\ get_skill_content(disk, n).err = NoSkillError
            /\ ~(svc'.kind = "uninstall_skill" /\ svc'.name = n))
           => /\ get_skill_content(disk', n).err = NoSkillError
              /\ get_skill_content(disk', n).content = get_skill_content(disk, n).content
      ]_vars

SyncNames == {"sync_repositories", "force_sync_repositories"}

IsOwnerRepo(url) == Len(split(url, SEP)) = 2

\* the repositories of a finished sync that count as bad: the scan failed,
\* or the url is not owner/repo
BadRepos(c) ==
    {k \in 1..Len(c.repositories) :
        \/ ~IsOwnerRepo(c.repositories[k].url)
        \/ k <= Len(c.log) /\ c.log[k].how = "scan_err"}

\* the Skills of the repositories that succeeded, in order
RECURSIVE SucceededSkills(_, _)
SucceededSkills(c, k) ==
    IF k > Len(c.log) THEN <<>>
    ELSE (IF k \in BadRepos(c) THEN <<>> ELSE c.log[k].found)
         \o SucceededSkills(c, k + 1)

\* C16: a sync command returns Ok whatever its repositories do: every
\* repository was processed, each repository whose scan failed or whose url
\* is not owner/repo has exactly one message in the error list and no other
\* message is there, success says whether the list is empty, and
\* skills_found is the length of the in-memory cache, which holds the
\* Skills of the repositories that succeeded, in order.
C16_SyncAggregates ==
    [][\A p \in Slots :
        (/\ cmd[p].name \in SyncNames
         /\ cmd[p].ret.state = "none"
         /\ cmd'[p].ret.state # "none")
        => LET c == cmd'[p]
           IN  /\ c.ret.state = "Ok"
               /\ Len(c.log) = Len(c.repositories)
               /\ Len(c.errors) = Cardinality(BadRepos(c))
               /\ \A k \in BadRepos(c) :
                    Cardinality({j \in 1..Len(c.errors) :
                                   c.errors[j].url = c.repositories[k].url}) = 1
               /\ c.ret.success = (c.errors = <<>>)
               /\ c.ret.skills_found = Len(skills_cache')
               /\ skills_cache' = SucceededSkills(c, 1)
      ]_vars

\* C17: a command suspended on a scan request does not hold the
\* skills_cache lock, so the lock is never kept from get_cached_skills by a
\* command that waits for the network.
C17_NoLockAcrossScan ==
    \A p \in Slots : cmd[p].awaiting => mutex # p

\* get_cached_skills holds the lock while a sync is suspended on a scan
C17_Witness ==
    \E p \in Slots, q \in Slots :
        /\ cmd[p].awaiting
        /\ cmd[p].name \in SyncNames
        /\ cmd[q].name = "get_cached_skills"
        /\ mutex = q

\* =================================================================
\* Properties of parse_skill_md
\* =================================================================
\* the tags of a parse result, none when the field is absent
TagsOf(r) == IF r.tags.some THEN r.tags.val ELSE <<>>

\* the chunks that declare the key
Declaring(cs, key) ==
    {i \in 1..Len(cs) : cs[i].kind \in {"scalar", "inline", "block"} /\ cs[i].key = key}

\* front-matter of key: value lines, no key declared twice
KeyValueLines(m) ==
    /\ m.frame = "closed"
    /\ \A i \in 1..Len(m.chunks) :
          /\ m.chunks[i].kind \in {"scalar", "inline", "block"}
          /\ m.chunks[i].quote \in {NoQuote, DoubleQuote, SingleQuote}
    /\ \A i, j \in 1..Len(m.chunks) : m.chunks[i].key = m.chunks[j].key => i = j

\* the scalar the front-matter declares for the key, if any
DeclaredScalar(cs, key) ==
    IF Declaring(cs, key) = {} THEN NoneStr
    ELSE SomeStr(cs[CHOOSE i \in Declaring(cs, key) : TRUE].value)

\* the tags the front-matter declares, none when it declares no tags
DeclaredTags(cs) ==
    IF Declaring(cs, key_tags) = {} THEN <<>>
    ELSE cs[CHOOSE i \in Declaring(cs, key_tags) : TRUE].tags

TagDeclarations(cs) == {i \in 1..Len(cs) : cs[i].kind \in {"inline", "block"}}

\* front-matter in which one ordered list of tags is written once, in one of
\* the three forms, among scalar lines
OneTagList(m) ==
    /\ m.frame = "closed"
    /\ \A i \in 1..Len(m.chunks) : m.chunks[i].kind \in {"scalar", "inline", "block"}
    /\ Cardinality(TagDeclarations(m.chunks)) = 1

\* C19: an ordered list of tags written as tags: [a, b, c], as tags: a, b, c
\* or as a block of "- tag" lines is returned by parse_skill_md as that
\* list, in that order, so the three forms give the same tag sequence
C19_TagForms ==
    (parsed.done /\ OneTagList(manifest)) =>
        \A i \in TagDeclarations(manifest.chunks) :
            TagsOf(parsed) = manifest.chunks[i].tags

\* two tags written as a block come back in the order written
C19_Witness ==
    /\ parsed.done
    /\ OneTagList(manifest)
    /\ \E i \in 1..Len(manifest.chunks) :
         manifest.chunks[i] = Block(<<TagQ, TagP>>)
    /\ parsed.tags = SomeSkills(<<TagQ, TagP>>)

\* front-matter with one tag block and no other declaration of tags
OneTagBlock(m) ==
    /\ m.frame = "closed"
    /\ Cardinality(TagDeclarations(m.chunks)) = 1
    /\ \A i \in TagDeclarations(m.chunks) : m.chunks[i].kind = "block"

\* where the tag block starts
BlockAt(cs) == CHOOSE i \in TagDeclarations(cs) : TRUE

\* the first key line after the tag block, Len(cs) + 1 when there is none
KeyLineAfterBlock(cs) ==
    LET after == {j \in (BlockAt(cs) + 1)..Len(cs) : cs[j].kind = "scalar"}
    IN  IF after = {} THEN Len(cs) + 1
        ELSE CHOOSE j \in after : \A k \in after : j <= k

\* the tags of the "- tag" lines from position i up to, not including, stop
RECURSIVE ItemsBetween(_, _, _)
ItemsBetween(cs, i, stop) ==
    IF i >= stop THEN <<>>
    ELSE (IF cs[i].kind = "item" THEN cs[i].tags ELSE <<>>)
         \o ItemsBetween(cs, i + 1, stop)

\* the field of a parse result a recognized key sets
FieldOf(r, key) ==
    CASE key = key_name -> r.name
      [] key = key_description -> r.description
      [] key = key_author -> r.author
      [] OTHER -> NoneStr

RecognizedScalars == {key_name, key_description, key_author}

\* C20: the tag block ends at the first line after tags: that does not
\* start with '-' and contains ':'; that line is processed as a key (it
\* sets its field when the key is recognized, for a later line of the same
\* key to set again), and of the "- tag" lines only those before it are tags
C20_BlockEndsAtKeyLine ==
    (parsed.done /\ OneTagBlock(manifest)) =>
        LET cs == manifest.chunks
            stop == KeyLineAfterBlock(cs)
        IN  /\ TagsOf(parsed) =
                    cs[BlockAt(cs)].tags \o ItemsBetween(cs, BlockAt(cs) + 1, stop)
            /\ (stop <= Len(cs) /\ cs[stop].key \in RecognizedScalars
                /\ Len(cs[stop].quote) <= 1
                /\ \A j \in (stop + 1)..Len(cs) : cs[j].key # cs[stop].key) =>
                    FieldOf(parsed, cs[stop].key) = SomeStr(cs[stop].value)

\* a block of two tags, the name line, then a "- tag" line that is dropped
C20_Witness ==
    /\ parsed.done
    /\ manifest.chunks = <<Block(<<TagQ, TagP>>),
                           Scalar(key_name, NoQuote, ValueA), Item(TagP)>>
    /\ parsed.tags = SomeSkills(<<TagQ, TagP>>)
    /\ parsed.name = SomeStr(ValueA)

\* =================================================================
\* Properties of categorize_skill
\* =================================================================
\* the categories in their order, each with its keywords
CategoryTable ==
    << [category |-> "Development",
        keywords |-> {<<"c", "o", "d", "e">>, <<"d", "e", "v", "e", "l", "o", "p">>, <<"t", "e", "s", "t">>, <<"g", "i", "t">>}],
       [category |-> "Data",
        keywords |-> {<<"d", "a", "t", "a">>, <<"c", "s", "v">>, <<"s", "q", "l">>, <<"a", "n", "a", "l", "y">>}],
       [category |-> "Writing",
        keywords |-> {<<"w", "r", "i", "t">>, <<"a", "r", "t", "i", "c", "l", "e">>, <<"c", "o", "n", "t", "e", "n", "t">>, <<"d", "o", "c">>}],
       [category |-> "Business",
        keywords |-> {<<"b", "u", "s", "i", "n", "e", "s", "s">>, <<"m", "a", "r", "k", "e", "t">>, <<"l", "e", "a", "d">>, <<"s", "a", "l", "e", "s">>}],
       [category |-> "Creative",
        keywords |-> {<<"i", "m", "a", "g", "e">>, <<"v", "i", "d", "e", "o">>, <<"c", "r", "e", "a", "t", "i", "v", "e">>, <<"d", "e", "s", "i", "g", "n">>}],
       [category |-> "Productivity",
        keywords |-> {<<"p", "r", "o", "d", "u", "c", "t", "i", "v">>, <<"o", "r", "g", "a", "n", "i", "z">>, <<"f", "i", "l", "e">>, <<"a", "u", "t", "o", "m", "a", "t">>}] >>

\* the keyword occurs in the name, in the description or in one of the
\* tags, letter case ignored
Occurs(kw, w) ==
    \/ contains_str(to_lowercase(w.name), kw)
    \/ contains_str(to_lowercase(w.desc), kw)
    \/ \E i \in 1..Len(w.tags.val) : contains_str(to_lowercase(w.tags.val[i]), kw)

\* the categories one of whose keywords occurs
Matching(w) ==
    {k \in 1..Len(CategoryTable) : \E kw \in CategoryTable[k].keywords : Occurs(kw, w)}

\* C21: categorize_skill returns the first category, in the order
\* Development, Data, Writing, Business, Creative, Productivity, one of
\* whose keywords occurs in the name, description or tags (letter case
\* ignored), and Other when none occurs; "code" together with "market" is
\* Development; the None or Some written for the tags matches nothing
C21_FirstCategory ==
    category.done =>
        /\ Matching(words) = {} => category.val = "Other"
        /\ Matching(words) # {} =>
              category.val =
                CategoryTable[CHOOSE k \in Matching(words) :
                                \A j \in Matching(words) : k <= j].category
        /\ (words.name = <<"m", "a", "r", "k", "e", "t">> /\ words.desc = <<"c", "o", "d", "e">>) => category.val = "Development"

\* "market" as name and "CODE" as description: Development although the
\* Business keyword comes first in the text
C21_Witness ==
    /\ category.done
    /\ words.name = <<"m", "a", "r", "k", "e", "t">>
    /\ words.desc = <<"C", "O", "D", "E">>
    /\ category.val = "Development"

\* =================================================================
\* Properties of parse_skill_directory
\* =================================================================
\* the last segment of a path
LastSegment(path) == split(path, SEP)[Len(split(path, SEP))]

\* the folder the Skill is named after
FolderOf(b) == IF b.dir_path = <<>> THEN b.repo ELSE LastSegment(b.dir_path)

\* the body of the manifest has a paragraph
HasParagraph(m) == m.body = AfterFrontMatter

\* C22: the Skill of directory dir_path of owner/repo has id owner/repo at
\* the root and owner/repo/dir_path below it; its name is the declared
\* name, else the folder name (last segment, or the repository name at the
\* root) with every '-' replaced by a space; its description is the
\* declared description, else the paragraph of the body, else "A skill
\* from {folder}"; its readme is the manifest text
C22_SkillFields ==
    built.done =>
        LET b == build
            s == built.skill
            cs == b.manifest.chunks
        IN  /\ s.id = IF b.dir_path = <<>>
                      THEN b.owner \o <<SEP>> \o b.repo
                      ELSE b.owner \o <<SEP>> \o b.repo \o <<SEP>> \o b.dir_path
            /\ s.name = IF DeclaredScalar(cs, key_name).some
                        THEN DeclaredScalar(cs, key_name).val
                        ELSE [i \in 1..Len(FolderOf(b)) |->
                                IF FolderOf(b)[i] = "-" THEN " " ELSE FolderOf(b)[i]]
            /\ s.description =
                    IF DeclaredScalar(cs, key_description).some
                    THEN DeclaredScalar(cs, key_description).val
                    ELSE IF HasParagraph(b.manifest) THEN Paragraph
                    ELSE <<"A", " ", "s", "k", "i", "l", "l", " ", "f", "r", "o", "m", " ">> \o FolderOf(b)
            /\ s.readme = SomeStr(manifest_text(b.manifest))

\* a directory two levels down, nothing declared and no paragraph: the
\* name is the last segment with spaces, the description the default
C22_Witness ==
    /\ built.done
    /\ build.dir_path = <<"a", SEP, "m", "-", "y", "-", "k">>
    /\ build.manifest.chunks = <<>>
    /\ build.manifest.body = ShortBody
    /\ built.skill.name = <<"m", " ", "y", " ", "k">>
    /\ built.skill.description = <<"A", " ", "s", "k", "i", "l", "l", " ", "f", "r", "o", "m", " ", "m", "-", "y", "-", "k">>

\* =================================================================
\* Properties of the Skills of a scan
\* =================================================================
\* C23: the path of every Skill of a scan is the path of its directory
\* relative to the repository root: the Skill of directory b/c has path b/c
C23_PathIsRelative ==
    IsScan => \A k \in 1..Len(skills) : skills[k].path = SkillDir(skills[k])

\* C24: no two Skills returned by one scan have the same repository and
\* the same path
C24_UniqueIdentity ==
    (IsScan /\ ret.state = "Ok") =>
        \A k, l \in 1..Len(ret.skills) :
            (ret.skills[k].repository = ret.skills[l].repository
             /\ ret.skills[k].path = ret.skills[l].path) => k = l

\* the remote directory d holds a manifest whose name is SKILL.md in
\* another letter case, and none spelled SKILL.md
HasManifestInOtherCase(d) ==
    /\ d \in DOMAIN remote
    /\ ~HasManifest(d)
    /\ \E i \in 1..Len(remote[d]) :
          /\ remote[d][i].content_type = "file"
          /\ remote[d][i].name \in {"skill.md", "Skill.md"}

\* C25: a directory whose manifest is named skill.md is a skill directory
\* and gives a Skill: the scan never ends with NotFound for the SKILL.md of
\* such a directory, and when it ends well each such directory it listed
\* has its Skill
C25_ManifestInOtherCase ==
    IsScan =>
        /\ (ret.state = "Err" /\ ret.err.kind = "NotFound") =>
              ~\E d \in DOMAIN remote :
                  HasManifestInOtherCase(d) /\ ret.err.path = skill_md_path(d)
        /\ ret.state = "Ok" =>
              \A d \in visited :
                  HasManifestInOtherCase(d) =>
                      \E k \in 1..Len(ret.skills) : SkillDir(ret.skills[k]) = d

\* =================================================================
\* Properties of ConfigService
\* =================================================================
BuiltinId == <<"composio", "-", "awesome">>

\* the builtin entry is in the configuration
BuiltinPresent(cfg) ==
    \E i \in 1..Len(cfg) : cfg[i].is_builtin /\ cfg[i].url = BUILTIN_REPO

\* C26: from the default configuration on, whatever is added, removed or
\* synced, the builtin entry stays with is_builtin = true; remove_repository
\* with the builtin id returns false and changes nothing; it returns true
\* only when it removed an entry, and every entry it removes is not builtin
C26_BuiltinKept ==
    [][ /\ BuiltinPresent(config')
        /\ conf'.name = "remove_repository" =>
              /\ conf'.id = BuiltinId => (~conf'.result /\ config' = config)
              /\ conf'.result =>
                    \E i \in 1..Len(config) :
                        /\ config[i].id = conf'.id
                        /\ ~config[i].is_builtin
                        /\ \A j \in 1..Len(config') : config'[j] # config[i]
              /\ \A i \in 1..Len(config) :
                    config[i].is_builtin => \E j \in 1..Len(config') : config'[j] = config[i]
      ]_vars

\* remove_repository was refused for the builtin id while an added
\* repository carries the same id
C26_Witness ==
    /\ conf.name = "remove_repository"
    /\ conf.id = BuiltinId
    /\ ~conf.result
    /\ \E i \in 1..Len(config) : config[i].id = BuiltinId /\ ~config[i].is_builtin
    /\ BuiltinPresent(config)

\* =================================================================
\* Properties of GitHubService::new
\* =================================================================
\* the variables that are set to a non-empty value, by position
NonEmptyVariables ==
    {i \in 1..6 : env[ProxyVariables[i]].some /\ env[ProxyVariables[i]].val # <<>>}

\* C27: the proxy of the client is the value of the first variable, in the
\* order HTTPS_PROXY, https_proxy, HTTP_PROXY, http_proxy, ALL_PROXY,
\* all_proxy, that is set to a non-empty value; a variable set to the
\* empty string is skipped
C27_FirstNonEmptyProxy ==
    proxy.done =>
        IF NonEmptyVariables = {} THEN ~proxy.val.some
        ELSE proxy.val =
                env[ProxyVariables[CHOOSE i \in NonEmptyVariables :
                                      \A j \in NonEmptyVariables : i <= j]]

\* =================================================================
\* Properties of the fallback description, of tag blocks and of quotes
\* =================================================================
\* the first line of a body that is not empty, does not start with '#' and
\* has more than 20 characters
FirstLongLine(body) ==
    CASE body = AfterFrontMatter -> SomeStr(Paragraph)
      [] body = MixedBody -> SomeStr(Indented)
      [] OTHER -> NoneStr

\* C28: the fallback description is the first line that is not empty, does
\* not start with '#' and is longer than 20 characters, of the body after
\* a complete front-matter and of the whole text otherwise, a text that
\* opens with the delimiter and never closes it included; there is none
\* only when there is no such line
C28_FallbackDescription ==
    parsed.done => parsed.fallback = FirstLongLine(manifest.body)

\* the first line after the tag block that is neither a "- tag" line nor
\* empty, Len(cs) + 1 when there is none
LineAfterBlock(cs) ==
    LET after == {j \in (BlockAt(cs) + 1)..Len(cs) : cs[j].kind \in {"scalar", "plain"}}
    IN  IF after = {} THEN Len(cs) + 1
        ELSE CHOOSE j \in after : \A k \in after : j <= k

\* C29: the tag block ends at the first line after tags: that has no '-'
\* prefix, with or without ':': no "- tag" line after a plain scalar line
\* is added to the tags
C29_BlockEndsAtPlainLine ==
    (parsed.done /\ OneTagBlock(manifest)) =>
        LET cs == manifest.chunks
        IN  TagsOf(parsed) =
                cs[BlockAt(cs)].tags
                \o ItemsBetween(cs, BlockAt(cs) + 1, LineAfterBlock(cs))

\* the chunks that give the author
AuthorLines(cs) == {i \in 1..Len(cs) : cs[i].kind = "scalar" /\ cs[i].key = key_author}

\* the value as written, less its outermost layer of quotes
LessOneLayer(c) ==
    IF c.quote = <<>> THEN c.value
    ELSE Tail(c.quote) \o c.value \o reversed(Tail(c.quote))

\* C30: a front-matter value loses its surrounding white space and exactly
\* one layer of quotes; written in two layers it keeps the inner one
C30_OneQuoteLayer ==
    (parsed.done /\ manifest.frame = "closed"
     /\ Cardinality(AuthorLines(manifest.chunks)) = 1) =>
        \A i \in AuthorLines(manifest.chunks) :
            parsed.author = SomeStr(LessOneLayer(manifest.chunks[i]))

\* =================================================================
\* Properties of download_directory_files
\* =================================================================
IsDownload == args.cmd = "download_directory_files"

\* dir_path without the separators around it
BaseDir == trim_matches(args.dir_path, SEP)

\* the directories of the remote tree at or below dir_path
DirsBelow == {d \in DOMAIN remote : d = BaseDir \/ IsProperDescendant(d, BaseDir)}

\* the files of the remote tree anywhere below dir_path
FilesBelowDir == {sl \in FileSlots(remote) : sl[1] \in DirsBelow}

\* no listing at or below dir_path names a child twice
ListingsNameOnce ==
    \A d \in DirsBelow : \A i, j \in 1..Len(remote[d]) :
        remote[d][i].name = remote[d][j].name => i = j

\* the repository path of a file without dir_path and the separator
Below(path) ==
    IF BaseDir = <<>> THEN path ELSE SubSeq(path, Len(BaseDir) + 2, Len(path))

\* the relative path a file of the tree has to be returned under
PathOf(sl) == Below(SlotPath(remote, sl))

\* the bytes the remote may send with status 200 for a file: the bytes of
\* the file, or the data of a body that is not the file
SentFor(sl) == {remote[sl[1]][sl[2]].raw, Body("malformed", <<>>, <<>>).data}

\* C31: when every Client call succeeds, download_directory_files returns
\* exactly one (relative path, bytes) pair for every file anywhere below
\* dir_path, at any depth and also below directories that hold SKILL.md;
\* a relative path is the repository path without the dir_path prefix and
\* the separator, so none starts with the separator; when a listing or a
\* file fetch fails, the error of that call is returned, without files,
\* and no call is made after it.
C31_DownloadResult ==
    IsDownload =>
        /\ (ret.state = "Ok" /\ ListingsNameOnce) =>
              /\ {ret.files[k][1] : k \in 1..Len(ret.files)}
                    = {PathOf(sl) : sl \in FilesBelowDir}
              /\ Len(ret.files) = Cardinality(FilesBelowDir)
              /\ \A k \in 1..Len(ret.files) : \E sl \in FilesBelowDir :
                    PathOf(sl) = ret.files[k][1] /\ ret.files[k][2] \in SentFor(sl)
              /\ \A k \in 1..Len(ret.files) :
                    ret.files[k][1] # <<>> /\ ret.files[k][1][1] # SEP
        /\ (call.state = "returned" /\ ~call.result.ok) =>
              \/ pc \in {"dl_await_contents", "dl_await_file"}
              \/ pc = "done" /\ ret.state = "Err" /\ ret.err = call.result.err
        /\ ret.state = "Err" =>
              /\ ret.files = <<>>
              /\ call.state = "returned" /\ ~call.result.ok
              /\ calls[Len(calls)] = [op |-> call.op, path |-> call.path]

\* the download of a directory that holds SKILL.md and a directory with
\* its own SKILL.md has returned the two files
C31_Witness ==
    /\ IsDownload /\ ret.state = "Ok"
    /\ remote = Tree3 /\ BaseDir = <<"a">>
    /\ Len(ret.files) = 2

\* =================================================================
\* Termination of scan_skills
\* =================================================================
\* every queued pair carries the depth of its path below the base, and
\* no depth exceeds the cap
DepthsCapped ==
    /\ \A k \in 1..Len(queue) :
          /\ queue[k].depth <= MAX_DEPTH
          /\ DepthOf(queue[k].path) = queue[k].depth
    /\ \A i \in ListingCalls : DepthOf(calls[i].path) <= MAX_DEPTH

\* C32: scan_skills always terminates, with a result or an error, when
\* every Client call returns and every listing is finite: no path deeper
\* than 3 below the base is ever queued or listed, whatever the remote
\* tree holds further down and also when a directory lists itself.
C32_ScanTerminates ==
    /\ [](IsScan => DepthsCapped)
    /\ <>(pc = "done" /\ ret.state \in {"Ok", "Err"})

\* the scan of a directory that lists itself has returned after listing
\* the base and three levels below it
C32_Witness ==
    /\ IsScan /\ remote = Tree6
    /\ pc = "done" /\ ret.state = "Ok"
    /\ visited = {LoopPath(k) : k \in 0..MAX_DEPTH}

\* =================================================================
\* Properties of the in-memory skills cache
\* =================================================================
Writers == {"fetch_store_skills", "sync_repositories", "force_sync_repositories"}

\* the Skills a sync has gathered, repository by repository
RECURSIVE Gathered(_)
Gathered(log) ==
    IF log = <<>> THEN <<>> ELSE Head(log).found \o Gathered(Tail(log))

\* the command has its complete list: a sync has dealt with every
\* repository, fetch_store_skills has the Skills one scan returned
HasCompleteList(c) ==
    IF c.name = "fetch_store_skills"
    THEN \E out \in ScanOutcomes(c.owner, c.repo) : out.ok /\ c.all_skills = out.found
    ELSE /\ Len(c.log) = Len(c.repositories)
         /\ c.all_skills = Gathered(c.log)

\* a command that has replaced the cache and has not returned yet
Replacing(q) == cmd[q].name \in Writers /\ phase(cmd[q]) = "return"

\* C33: the in-memory skills cache is only ever replaced as a whole: a
\* change of the cache is made by one command that holds the lock and
\* puts its complete list there; a command that has replaced the cache
\* holds the lock until it returns; and get_cached_skills returns the
\* cache as it is while it holds the lock, so what it returns is the
\* initial empty list or the complete list of one command that has
\* returned, never a mix or a part.
C33_WholeReplace ==
    [][/\ skills_cache' # skills_cache =>
            \E p \in Slots :
                /\ cmd[p].name \in Writers /\ phase(cmd[p]) = "store"
                /\ mutex = p
                /\ HasCompleteList(cmd[p])
                /\ skills_cache' = cmd[p].all_skills
       /\ \A q \in Slots : Replacing(q) => mutex = q /\ skills_cache = cmd[q].all_skills
       /\ \A p \in Slots :
            (/\ cmd[p].name = "get_cached_skills"
             /\ cmd[p].ret.state = "none"
             /\ cmd'[p].ret.state # "none")
            => /\ cmd'[p].ret.state = "Ok"
               /\ cmd'[p].ret.value = skills_cache
               /\ mutex = p
               /\ \A q \in Slots : ~Replacing(q)
      ]_vars

\* get_cached_skills has returned the list of a sync of two repositories
\* while another sync is waiting for its scan
C33_Witness ==
    \E p, q \in Slots :
        /\ cmd[p].name = "get_cached_skills" /\ cmd[p].ret.state = "Ok"
        /\ Len(cmd[p].ret.value) = 3
        /\ cmd[q].name \in {"sync_repositories", "force_sync_repositories"}
        /\ cmd[q].awaiting

\* =================================================================
\* Properties of install_skill calls that run side by side
\* =================================================================
\* the call has returned Ok
Installed(c) == c.at = "done" /\ c.err = NoSkillError

\* the files the call was given, as they lie below the skill directory
WrittenBy(c) ==
    {SkillPath(c.name) \o components(c.files[k][1]) : k \in 1..Len(c.files)}

\* C34: of two install_skill calls for the same skill name that run at
\* the same time at most one succeeds, and once both have returned the
\* skill directory holds the files of the one that succeeded and no other.
C34_OneInstallWins ==
    \A p, q \in Installers :
        (/\ p # q
         /\ inst[p].name = inst[q].name
         /\ inst[p].at = "done" /\ inst[q].at = "done")
        => /\ ~(Installed(inst[p]) /\ Installed(inst[q]))
           /\ Installed(inst[p]) =>
                 FilesBelow(disk, SkillPath(inst[p].name)) = WrittenBy(inst[p])

\* =================================================================
\* Properties of ConfigService calls that run side by side
\* =================================================================
\* C35: configuration updates are not lost: once an add_repository (or a
\* remove_repository that removed) has returned and the running sync has
\* finished its update_repository_sync, the stored configuration holds
\* the added repository (does not hold the removed one).
C35_NoLostUpdate ==
    LET c == edit["command"]
    IN  (c.at = "done" /\ edit["sync"].at = "done")
        => /\ c.op = "add_repository" =>
                 \E i \in 1..Len(config) : config[i].url = c.url
           /\ (c.op = "remove_repository" /\ c.removed) =>
                 \A i \in 1..Len(config) : config[i].id # c.id

\* =================================================================
\* Properties of the disk cache of a repository
\* =================================================================
\* the base path the stored configuration has for the repository
StoredBasePath(id) ==
    LET found == {i \in 1..Len(config) : config[i].id = id}
    IN  config[CHOOSE i \in found : \A j \in found : i <= j].base_path

\* what a scan of the repository entry finds when it succeeds
ScanOf(entry) ==
    LET parts == split(entry.url, SEP)
    IN  scanned(RemoteRepos[<<parts[1], parts[2]>>], entry.base_path)

\* C36: after add_repository has changed the base path of a repository,
\* no sync_repositories that works with the new base path takes the
\* repository from a disk cache made with the old one: what it takes from
\* the cache is what a scan with the base path of its list finds.
C36_NoStaleCache ==
    \A p \in Slots :
        cmd[p].name = "sync_repositories" =>
            \A k \in 1..Len(cmd[p].log) :
                LET entry == cmd[p].repositories[k]
                IN  (/\ cmd[p].log[k].how = "cache"
                     /\ IsOwnerRepo(entry.url)
                     /\ \E i \in 1..Len(config) : config[i].id = entry.id
                     /\ StoredBasePath(entry.id) = entry.base_path)
                    => cmd[p].log[k].found = ScanOf(entry)

\* =================================================================
\* The frame of uninstall_skill
\* =================================================================
\* C37: uninstall_skill(name) removes nothing but the directory of the
\* skill called name: for every name it accepts, the empty string
\* included, every other installed skill directory with its files and
\* the skills root itself still exist afterwards.
C37_UninstallFrame ==
    [][(svc'.kind = "uninstall_skill" /\ svc'.err = NoSkillError)
       => /\ SkillsRoot \in disk'.dirs
          /\ \A n \in SkillNames \ {svc'.name} :
                /\ SkillPath(n) \in disk.dirs => SkillPath(n) \in disk'.dirs
                /\ \A f \in FilesBelow(disk, SkillPath(n)) :
                      f \in DOMAIN disk'.files /\ disk'.files[f] = disk.files[f]
      ]_vars

\* =================================================================
\* Properties of the entries of the stored configuration
\* =================================================================

\* the positions of the stored configuration
Entries == 1..Len(config)

\* C38: after any sequence of add_repository and remove_repository calls no
\* two entries of the stored configuration share the id or the url, and
\* remove_repository with the id of a non-builtin entry removes that entry
\* and no other one
C38_UniqueIdAndUrl ==
    /\ \A i, j \in Entries :
          i # j => config[i].id # config[j].id /\ config[i].url # config[j].url
    /\ \A i \in Entries :
          ~config[i].is_builtin =>
             remove_repository(config, config[i].id).config
                = [k \in 1..(Len(config) - 1) |->
                      IF k < i THEN config[k] ELSE config[k + 1]]
====
